---- MODULE Spec2Model ----
(***************************************************************************)
(* COBOL source-structure extractor (cobol_parser.py), the relational      *)
(* store of extracted programs (database.py, models.py) and the analytics  *)
(* aggregators (analytics_service.py).                                     *)
(*                                                                         *)
(* Text is a sequence of one-character strings, so that splitting,         *)
(* stripping, upper-casing and the regular expressions of the parser are   *)
(* computed character by character.                                        *)
(***************************************************************************)
EXTENDS Integers, Sequences, FiniteSets, TLC

VARIABLES
    file_content,   \* parse_cobol_to_ast: the raw text handed to the parser
                    \* (_estimate_complexity: its argument content)
    file_path,      \* parse_cobol_to_ast: the location handed to the parser
    ast,            \* parse_cobol_to_ast: the returned dictionary
    directory,      \* extract_cobol_files: the files os.walk yields, in its order
    walk_pos,       \* extract_cobol_files: index of the file the loop visits next
    cobol_files,    \* extract_cobol_files: the list of FactSets built so far
    store,          \* the rows of the table cobol_programs, as query.all() returns them
    last_call,      \* store_cobol_program: the last call, what it found and what it returned
    last_stored,    \* history: per identity, the data of the last call that returned True
    result,         \* the report returned by the last analytics operation
    pc,             \* position of the operation under analysis
    upload_folder,  \* app.py: the files of the folder uploads, by name
    requests,       \* app.py: the upload_file requests in flight, each with its locals
    calls,          \* database.py: the store_cobol_program calls in flight
    sessions,       \* the rows of the table analysis_sessions, by session_id
    llm_service,    \* llm_integration.py: the fields of the global LLMService
    environ         \* os.environ: the variables the LLM service reads

parseVars == <<file_content, file_path, ast>>
batchVars == <<directory, walk_pos, cobol_files>>
storeVars == <<store, last_call, last_stored>>
webVars == <<upload_folder, requests, calls, sessions, llm_service, environ>>
vars == <<file_content, file_path, ast, directory, walk_pos, cobol_files,
          store, last_call, last_stored, result, pc,
          upload_folder, requests, calls, sessions, llm_service, environ>>

----------------------------------------------------------------------------
(* Characters and character classes                                        *)

LowerChars == <<"a","b","c","d","e","f","g","h","i","j","k","l","m","n","o","p","q","r","s","t","u","v","w","x","y","z">>
UpperChars == <<"A","B","C","D","E","F","G","H","I","J","K","L","M","N","O","P","Q","R","S","T","U","V","W","X","Y","Z">>
DigitChars == {"0","1","2","3","4","5","6","7","8","9"}

\* str.strip() without argument and the regex class \s
WhiteSpace == {" ", "\t", "\n", "\r", "\f"}

\* the regex class [A-Z0-9\-]
NameChars == {UpperChars[i] : i \in 1..26} \cup DigitChars \cup {"-"}

\* the regex class ["\']
QuoteChars == {"\"", "'"}

\* str.upper() on one character
UpperChar(c) ==
    IF c \in {LowerChars[i] : i \in 1..26}
    THEN UpperChars[CHOOSE i \in 1..26 : LowerChars[i] = c]
    ELSE c

\* str.lower() on one character
LowerChar(c) ==
    IF c \in {UpperChars[i] : i \in 1..26}
    THEN LowerChars[CHOOSE i \in 1..26 : UpperChars[i] = c]
    ELSE c

\* str.lower()
lower(s) == [i \in 1..Len(s) |-> LowerChar(s[i])]

\* str.upper()
upper(s) == [i \in 1..Len(s) |-> UpperChar(s[i])]

\* set(list)
SetOf(s) == {s[i] : i \in 1..Len(s)}

\* every list whose elements are those of the set S, each once: the orders
\* in which list(set(...)) may enumerate S
ListsOfSet(S) ==
    {p \in [1..Cardinality(S) -> S] : \A x \in S : \E i \in 1..Cardinality(S) : p[i] = x}

----------------------------------------------------------------------------
(* String operations used by the normalizer                                *)

\* str.split('\n')
RECURSIVE split(_)
split(s) ==
    IF \E i \in 1..Len(s) : s[i] = "\n"
    THEN LET i == CHOOSE k \in 1..Len(s) :
                     s[k] = "\n" /\ \A j \in 1..(k-1) : s[j] # "\n"
         IN  <<SubSeq(s, 1, i-1)>> \o split(SubSeq(s, i+1, Len(s)))
    ELSE <<s>>

\* '\n'.join(lines)
RECURSIVE join(_)
join(lines) ==
    IF Len(lines) = 0 THEN <<>>
    ELSE IF Len(lines) = 1 THEN lines[1]
    ELSE lines[1] \o <<"\n">> \o join(Tail(lines))

\* str.lstrip()
RECURSIVE lstrip(_)
lstrip(s) ==
    IF Len(s) > 0 /\ s[1] \in WhiteSpace THEN lstrip(Tail(s)) ELSE s

\* str.rstrip()
RECURSIVE rstrip(_)
rstrip(s) ==
    IF Len(s) > 0 /\ s[Len(s)] \in WhiteSpace
    THEN rstrip(SubSeq(s, 1, Len(s)-1)) ELSE s

\* str.strip()
strip(s) == rstrip(lstrip(s))

\* str.startswith(prefix)
startswith(s, prefix) ==
    Len(s) >= Len(prefix) /\ SubSeq(s, 1, Len(prefix)) = prefix

\* os.path.basename
RECURSIVE basename(_)
basename(p) ==
    IF \E i \in 1..Len(p) : p[i] = "/"
    THEN basename(SubSeq(p, (CHOOSE k \in 1..Len(p) : p[k] = "/" /\ \A j \in 1..(k-1) : p[j] # "/") + 1, Len(p)))
    ELSE p

\* the width of the sequence-number area removed from longer lines
SeqAreaWidth == 6

\* the slice line[6:]
DropSeqArea(line) == SubSeq(line, SeqAreaWidth + 1, Len(line))

\* the loop body of the normalizer for one line: <<>> when the line is
\* dropped as a comment, else the one cleaned line
CleanLine(line) ==
    IF startswith(strip(line), <<"*">>) THEN <<>>
    ELSE IF Len(line) > SeqAreaWidth THEN <<strip(DropSeqArea(line))>>
    ELSE <<strip(line)>>

RECURSIVE CleanLines(_)
CleanLines(lines) ==
    IF Len(lines) = 0 THEN <<>>
    ELSE CleanLine(lines[1]) \o CleanLines(Tail(lines))

\* the canonical text: '\n'.join(clean_lines).upper()
Normalize(text) == upper(join(CleanLines(split(text))))

----------------------------------------------------------------------------
(* Regular expressions                                                     *)

\* end of the longest run of characters of class C that starts at i
RECURSIVE SpanEnd(_, _, _)
SpanEnd(s, i, C) ==
    IF i <= Len(s) /\ s[i] \in C THEN SpanEnd(s, i+1, C) ELSE i

\* the literal lit stands at position i of s
MatchLit(s, i, lit) ==
    i + Len(lit) - 1 <= Len(s) /\ SubSeq(s, i, i + Len(lit) - 1) = lit

NoMatch == [ok |-> FALSE, group |-> <<>>, end |-> 0]

\* kw \s+ ([A-Z0-9\-]+) tried at position i
MatchKeywordName(s, i, kw) ==
    LET a == i + Len(kw)
        b == SpanEnd(s, a, WhiteSpace)
        c == SpanEnd(s, b, NameChars)
    IN  IF MatchLit(s, i, kw) /\ b > a /\ c > b
        THEN [ok |-> TRUE, group |-> SubSeq(s, b, c-1), end |-> c]
        ELSE NoMatch

\* kw \s+ ["\'] ([A-Z0-9\-]+) ["\'] tried at position i
MatchKeywordQuoted(s, i, kw) ==
    LET a == i + Len(kw)
        b == SpanEnd(s, a, WhiteSpace)
        c == SpanEnd(s, b+1, NameChars)
    IN  IF /\ MatchLit(s, i, kw) /\ b > a
           /\ b <= Len(s) /\ s[b] \in QuoteChars
           /\ c > b+1
           /\ c <= Len(s) /\ s[c] \in QuoteChars
        THEN [ok |-> TRUE, group |-> SubSeq(s, b+1, c-1), end |-> c+1]
        ELSE NoMatch

KwProgramId == <<"P","R","O","G","R","A","M","-","I","D",".">>
KwCopy == <<"C","O","P","Y">>
KwCall == <<"C","A","L","L">>
KwPerform == <<"P","E","R","F","O","R","M">>
KwSectionDot == <<"S","E","C","T","I","O","N",".">>
KwWorkingStorage == <<"W","O","R","K","I","N","G","-","S","T","O","R","A","G","E">>
KwProcedure == <<"P","R","O","C","E","D","U","R","E">>
KwDivision == <<"D","I","V","I","S","I","O","N">>
KwFile == <<"F","I","L","E">>
KwFD == <<"F","D">>

\* the regex class \w
WordChars == {UpperChars[i] : i \in 1..26} \cup {LowerChars[i] : i \in 1..26}
                 \cup DigitChars \cup {"_"}

\* C+ \s+ lit tried at position i, C a character class; the group is the run of C
MatchRunThenLit(s, i, C, lit) ==
    LET a == SpanEnd(s, i, C)
        b == SpanEnd(s, a, WhiteSpace)
    IN  IF a > i /\ b > a /\ MatchLit(s, b, lit)
        THEN [ok |-> TRUE, group |-> SubSeq(s, i, a-1), end |-> b + Len(lit)]
        ELSE NoMatch

\* ([A-Z0-9\-]+)\s+SECTION\. tried at position i
MatchSectionHeader(s, i) == MatchRunThenLit(s, i, NameChars, KwSectionDot)

\* ^ under re.MULTILINE
AtLineStart(s, i) == i = 1 \/ s[i-1] = "\n"

\* $ under re.MULTILINE
AtLineEnd(s, i) == i = Len(s) + 1 \/ (i <= Len(s) /\ s[i] = "\n")

\* $ without re.MULTILINE: the end of the text, or before a final newline
AtTextEnd(s, i) == i = Len(s) + 1 \/ (i = Len(s) /\ s[i] = "\n")

\* ^([A-Z0-9\-]+)\.\s*$ under re.MULTILINE tried at position i; the greedy
\* \s* gives back characters until $ holds
MatchParagraph(s, i) ==
    LET a == SpanEnd(s, i, NameChars)
        b == SpanEnd(s, a+1, WhiteSpace)
        ends == {k \in (a+1)..b : AtLineEnd(s, k)}
    IN  IF /\ AtLineStart(s, i) /\ a > i
           /\ a <= Len(s) /\ s[a] = "."
           /\ ends # {}
        THEN [ok |-> TRUE, group |-> SubSeq(s, i, a-1),
              end |-> CHOOSE k \in ends : \A j \in ends : j <= k]
        ELSE NoMatch

\* (\d+)\s+([A-Z0-9\-]+) tried at position i; the group is the pair
MatchDataItem(s, i) ==
    LET a == SpanEnd(s, i, DigitChars)
        b == SpanEnd(s, a, WhiteSpace)
        c == SpanEnd(s, b, NameChars)
    IN  IF a > i /\ b > a /\ c > b
        THEN [ok |-> TRUE, group |-> <<SubSeq(s, i, a-1), SubSeq(s, b, c-1)>>, end |-> c]
        ELSE NoMatch

\* kw1 \s+ kw2 tried at position i
MatchTwoWords(s, i, kw1, kw2) ==
    LET a == i + Len(kw1)
        b == SpanEnd(s, a, WhiteSpace)
    IN  IF MatchLit(s, i, kw1) /\ b > a /\ MatchLit(s, b, kw2)
        THEN [ok |-> TRUE, group |-> <<>>, end |-> b + Len(kw2)]
        ELSE NoMatch

\* the patterns of parse_cobol_to_ast and _estimate_complexity, by name
MatchAt(pat, s, i) ==
    CASE pat = "PROGRAM-ID" -> MatchKeywordName(s, i, KwProgramId)
      [] pat = "COPY"       -> MatchKeywordName(s, i, KwCopy)
      [] pat = "CALL"       -> MatchKeywordQuoted(s, i, KwCall)
      [] pat = "SECTION"    -> MatchSectionHeader(s, i)
      [] pat = "PARAGRAPH"  -> MatchParagraph(s, i)
      [] pat = "PERFORM"    -> MatchKeywordName(s, i, KwPerform)
      [] pat = "FD"         -> MatchKeywordName(s, i, KwFD)
      [] pat = "DATA-ITEM"  -> MatchDataItem(s, i)
      [] pat = "WS-MARKER"  -> MatchTwoWords(s, i, KwWorkingStorage, KwSectionDot)
      [] pat = "FS-MARKER"  -> MatchTwoWords(s, i, KwFile, KwSectionDot)

\* the least of a non-empty set of positions
LeastOf(places) == CHOOSE k \in places : \A j \in places : k <= j

\* the positions at which a match of the pattern starts
MatchPlaces(pat, s) == {k \in 1..Len(s) : MatchAt(pat, s, k).ok}

\* re.findall: the groups of the non-overlapping matches, left to right; the
\* scan takes the first match that starts at or after i and resumes at its end
RECURSIVE FindAllFrom(_, _, _, _)
FindAllFrom(pat, s, places, i) ==
    LET ahead == {k \in places : k >= i}
    IN  IF ahead = {} THEN <<>>
        ELSE LET m == MatchAt(pat, s, LeastOf(ahead))
             IN  <<m.group>> \o FindAllFrom(pat, s, places, m.end)

findall(pat, s) == FindAllFrom(pat, s, MatchPlaces(pat, s), 1)

\* re.search(...).group(1), or <<>> (the initial "") when nothing matches
SearchGroup(pat, s) ==
    LET ms == findall(pat, s) IN IF Len(ms) > 0 THEN ms[1] ELSE <<>>

\* the positions at which the literal keyword starts
LitPlaces(s, lit) == {k \in 1..Len(s) : MatchLit(s, k, lit)}

\* len(re.findall(keyword, content)) for a literal keyword: the scan takes
\* the first occurrence at or after i and resumes behind it
RECURSIVE CountLitFrom(_, _, _)
CountLitFrom(places, i, lit) ==
    LET ahead == {k \in places : k >= i}
    IN  IF ahead = {} THEN 0
        ELSE 1 + CountLitFrom(places, LeastOf(ahead) + Len(lit), lit)

\* the position after the first match of a marker pattern, 0 when there is none
MarkerEndFrom(pat, s, i) ==
    LET ahead == {k \in MatchPlaces(pat, s) : k >= i}
    IN  IF ahead = {} THEN 0 ELSE MatchAt(pat, s, LeastOf(ahead)).end

\* the lookahead \w+\s+SECTION\. at position k
AheadSection(s, k) == MatchRunThenLit(s, k, WordChars, KwSectionDot).ok

\* the lookahead PROCEDURE\s+DIVISION at position k
AheadProcedure(s, k) == MatchTwoWords(s, k, KwProcedure, KwDivision).ok

\* a lookahead that does not know the PROCEDURE DIVISION marker
WsRegionEndsAtSection(s, k) == AheadSection(s, k) \/ AtTextEnd(s, k)

\* (?=\w+\s+SECTION\.|PROCEDURE\s+DIVISION|$) at position k
WsRegionEnds(s, k) == AheadSection(s, k) \/ AheadProcedure(s, k) \/ AtTextEnd(s, k)

\* (?=\w+\s+SECTION\.|$) at position k
FsRegionEnds(s, k) == AheadSection(s, k) \/ AtTextEnd(s, k)

\* group 1 of WORKING-STORAGE\s+SECTION\.(.*?)(?=...) under re.DOTALL: the
\* shortest text after the marker that a region end follows
ws_content(content) ==
    LET a == MarkerEndFrom("WS-MARKER", content, 1)
        e == CHOOSE k \in a..(Len(content)+1) :
                 WsRegionEnds(content, k) /\ \A j \in a..(k-1) : ~WsRegionEnds(content, j)
    IN  IF a = 0 THEN <<>> ELSE SubSeq(content, a, e-1)

\* group 1 of FILE\s+SECTION\.(.*?)(?=...) under re.DOTALL
fs_content(content) ==
    LET a == MarkerEndFrom("FS-MARKER", content, 1)
        e == CHOOSE k \in a..(Len(content)+1) :
                 FsRegionEnds(content, k) /\ \A j \in a..(k-1) : ~FsRegionEnds(content, j)
    IN  IF a = 0 THEN <<>> ELSE SubSeq(content, a, e-1)

----------------------------------------------------------------------------
(* Arguments: a string, or a value that is not a string                    *)

\* an argument that is not a string (None): file_content.split raises
NotAString == [is_str |-> FALSE, chars |-> <<>>]

\* a string argument
Str(chars) == [is_str |-> TRUE, chars |-> chars]

----------------------------------------------------------------------------
(* _estimate_complexity                                                    *)

decision_keywords ==
    << <<"I","F">>, <<"W","H","E","N">>, <<"P","E","R","F","O","R","M">>,
       <<"U","N","T","I","L">>, <<"W","H","I","L","E">> >>

RECURSIVE SumCounts(_, _)
SumCounts(content, kws) ==
    IF Len(kws) = 0 THEN 0
    ELSE CountLitFrom(LitPlaces(content, kws[1]), 1, kws[1])
             + SumCounts(content, Tail(kws))

decision_count(content) == SumCounts(content, decision_keywords)

data_count(content) == Len(findall("DATA-ITEM", content))

total_score(content) == decision_count(content) + data_count(content)

LowLimit == 10
MediumLimit == 50

\* thresholds that put the limits 10 and 50 in the lower class
ComplexityOfScoreInclusive(score) ==
    IF score <= LowLimit THEN "Low"
    ELSE IF score <= MediumLimit THEN "Medium"
    ELSE "High"

ComplexityOfScore(score) ==
    IF score < LowLimit THEN "Low"
    ELSE IF score < MediumLimit THEN "Medium"
    ELSE "High"

\* re.findall raises on an argument that is not a string, and the except
\* branch returns "Unknown"; nothing in the try body raises on a string
_estimate_complexity(content) ==
    IF ~content.is_str THEN "Unknown"
    ELSE ComplexityOfScore(total_score(content.chars))

----------------------------------------------------------------------------
(* parse_cobol_to_ast                                                      *)

Unknown == <<"u","n","k","n","o","w","n">>

cobol_keywords ==
    { <<"I","D","E","N","T","I","F","I","C","A","T","I","O","N">>,
      <<"E","N","V","I","R","O","N","M","E","N","T">>,
      <<"D","A","T","A">>,
      <<"P","R","O","C","E","D","U","R","E">>,
      <<"W","O","R","K","I","N","G","-","S","T","O","R","A","G","E">>,
      <<"F","I","L","E">>,
      <<"L","I","N","K","A","G","E">>,
      <<"L","O","C","A","L","-","S","T","O","R","A","G","E">>,
      <<"C","O","N","F","I","G","U","R","A","T","I","O","N">>,
      <<"I","N","P","U","T","-","O","U","T","P","U","T">>,
      <<"F","I","L","E","-","C","O","N","T","R","O","L">> }

procedure_patterns == <<"SECTION", "PARAGRAPH", "PERFORM">>

\* the set filled by procedures.update(matches) over the three patterns
procedure_names(content) ==
    UNION {SetOf(findall(procedure_patterns[i], content)) : i \in 1..Len(procedure_patterns)}

\* the procedures when no name is filtered out
procedures_unfiltered(content) ==
    {[name |-> proc, type |-> "procedure", calls |-> <<>>] : proc \in procedure_names(content)}

\* ast["procedures"]; the list is built from a set, its order is not modelled
procedures(content) ==
    {[name |-> proc, type |-> "procedure", calls |-> <<>>] :
         proc \in procedure_names(content) \ cobol_keywords}

copy_matches(content) == findall("COPY", content)
call_matches(content) == findall("CALL", content)

\* the dependencies when the CALL matches are never added
dependencies_without_calls(content) == copy_matches(content)

\* ast["dependencies"] before the final list(set(...))
dependencies_extended(content) == copy_matches(content) \o call_matches(content)

\* the set of ast["dependencies"] = list(set(ast["dependencies"]))
dependency_set(content) == SetOf(dependencies_extended(content))

working_storage(content) ==
    LET items == findall("DATA-ITEM", ws_content(content))
    IN  [i \in 1..Len(items) |->
            [level |-> items[i][1], name |-> items[i][2], type |-> "data_item"]]

file_section(content) ==
    LET fds == findall("FD", fs_content(content))
    IN  [i \in 1..Len(fds) |-> [name |-> fds[i], type |-> "file_descriptor"]]

file_name_of(path) == IF Len(path) > 0 THEN basename(path) ELSE Unknown

\* the dictionary of the except branch
ErrorAst(path) ==
    [file_path |-> path,
     file_name |-> file_name_of(path),
     error |-> "'NoneType' object has no attribute 'split'",
     procedures |-> {},
     data_divisions |-> <<>>,
     dependencies |-> <<>>,
     copybooks |-> {},
     working_storage |-> <<>>,
     file_section |-> <<>>,
     line_count |-> 0]

\* the dictionaries the try body may return, one for each order in which
\* list(set(...)) may enumerate the dependency set
SuccessAsts(text, path) ==
    LET content == Normalize(text)
        procs == procedures(content)
        ws == working_storage(content)
        fs == file_section(content)
        name == file_name_of(path)
        pid == SearchGroup("PROGRAM-ID", content)
        books == SetOf(copy_matches(content))
        count == Len(split(text))
        complexity == _estimate_complexity(Str(content))
    IN  {[file_path |-> path,
          file_name |-> name,
          program_id |-> pid,
          procedures |-> procs,
          data_divisions |-> <<>>,
          dependencies |-> deps,
          copybooks |-> books,
          working_storage |-> ws,
          file_section |-> fs,
          line_count |-> count,
          metadata |-> [has_file_section |-> Len(fs) > 0,
                        has_working_storage |-> Len(ws) > 0,
                        procedure_count |-> Cardinality(procs),
                        dependency_count |-> Len(deps),
                        estimated_complexity |-> complexity]] :
             deps \in ListsOfSet(dependency_set(content))}

\* the dictionaries parse_cobol_to_ast may return; the try body raises when
\* file_content is not a string, and nothing else in it raises on a string
parse_cobol_to_ast(content, path) ==
    IF ~content.is_str THEN {ErrorAst(path)}
    ELSE SuccessAsts(content.chars, path)

----------------------------------------------------------------------------
(* The texts handed to the parser                                          *)

MaxLines == 3

SeqNo == <<"0","0","0","1","0","0">>

StmtProgramId == <<"P","R","O","G","R","A","M","-","I","D","."," ","P","A","Y","R","O","L","L",".">>
StmtCopy == <<"C","O","P","Y"," ","C","U","S","T","R","E","C",".">>
StmtCall == <<"C","A","L","L"," ","\"","V","A","L","I","D","A","T","E","\"",".">>

\* the three statements of the payroll scenario, bare and behind a sequence number
ScenarioLines ==
    {StmtProgramId, StmtCopy, StmtCall,
     SeqNo \o StmtProgramId, SeqNo \o StmtCopy, SeqNo \o StmtCall}

\* a lower-case CALL of the copied name behind a sequence number, and a comment line
OtherLines ==
    { <<"0","0","0","1","0","0"," ","c","a","l","l"," ","'","c","u","s","t","r","e","c","'",".">>,
      <<"*"," ","C","O","P","Y"," ","O","L","D","R","E","C",".">> }

Lines == ScenarioLines \cup OtherLines

\* the texts of one to MaxLines lines
Texts == UNION {{join(ls) : ls \in [1..n -> Lines]} : n \in 1..MaxLines}

SourcePath == <<"s","r","c","/","P","A","Y",".","c","b","l">>

\* the calls under analysis: every text with a path, and the calls without a
\* path or without a text
ParseCalls ==
    {<<Str(t), SourcePath>> : t \in Texts}
        \cup {<<Str(l), <<>>>> : l \in Lines}
        \cup {<<NotAString, SourcePath>>, <<NotAString, <<>>>>}

NoAst == [pending |-> TRUE]

\* the values of the variables an operation under analysis does not use
NoCall == [made |-> FALSE]
NoResult == [pending |-> TRUE]
EmptyFunction == [x \in {} |-> x]

ParseIdle == file_content = NotAString /\ file_path = <<>> /\ ast = NoAst
BatchIdle == directory = <<>> /\ walk_pos = 0 /\ cobol_files = <<>>
StoreIdle == store = <<>> /\ last_call = NoCall /\ last_stored = EmptyFunction
NoService == [constructed |-> FALSE]
WebIdle ==
    /\ upload_folder = EmptyFunction
    /\ requests = EmptyFunction
    /\ calls = EmptyFunction
    /\ sessions = EmptyFunction
    /\ llm_service = NoService
    /\ environ = EmptyFunction

ParseInit ==
    /\ \E call \in ParseCalls :
           /\ file_content = call[1]
           /\ file_path = call[2]
    /\ ast = NoAst
    /\ BatchIdle
    /\ StoreIdle
    /\ result = NoResult
    /\ pc = "call"
    /\ WebIdle

\* one call of parse_cobol_to_ast(file_content, file_path)
Parse ==
    /\ pc = "call"
    /\ ast' \in parse_cobol_to_ast(file_content, file_path)
    /\ pc' = "returned"
    /\ UNCHANGED <<file_content, file_path>>
    /\ UNCHANGED batchVars
    /\ UNCHANGED <<storeVars, result>>
    /\ UNCHANGED webVars

ParseNext == Parse

SpecParse == ParseInit /\ [][ParseNext]_vars

----------------------------------------------------------------------------
(* Properties of parse_cobol_to_ast                                        *)

Returned == pc = "returned"

IsErrorAst(a) == "error" \in DOMAIN a

NoRepeats(seq) == \A i, j \in 1..Len(seq) : i # j => seq[i] # seq[j]

\* the names matched by COPY statements in the canonical text of the input
IncludeReferences == SetOf(findall("COPY", Normalize(file_content.chars)))

\* the names matched by quoted CALL statements in the canonical text of the input
CallReferences == SetOf(findall("CALL", Normalize(file_content.chars)))

\* C1: in every returned FactSet, successful or error-marked, dependencies
\* holds no name twice and is, as a set, exactly the COPY names united with
\* the quoted CALL names of the canonical text (no text, hence no name, when
\* the input made the extraction raise).
C1_DependenciesAreDedupUnion ==
    Returned =>
        /\ NoRepeats(ast.dependencies)
        /\ SetOf(ast.dependencies) = IncludeReferences \cup CallReferences

\* a successful FactSet whose COPY and CALL references overlap, so that the
\* union was deduplicated, and which keeps two names or more
C1_Witness ==
    /\ Returned
    /\ ~IsErrorAst(ast)
    /\ IncludeReferences \cap CallReferences # {}
    /\ CallReferences \ IncludeReferences # {}
    /\ Len(ast.dependencies) >= 2

Payroll == <<"P","A","Y","R","O","L","L">>
Custrec == <<"C","U","S","T","R","E","C">>
Validate == <<"V","A","L","I","D","A","T","E">>

\* stmt stands on a line of its own, bare or behind a six-character sequence number
HasStatement(lines, stmt) ==
    \E i \in 1..Len(lines) : lines[i] = stmt \/ lines[i] = SeqNo \o stmt

\* the input consists of the three statements of the payroll scenario, each
\* on its own line, each with or without a sequence number
IsPayrollText ==
    /\ file_content.is_str
    /\ LET lines == split(file_content.chars)
       IN  /\ \A i \in 1..Len(lines) : lines[i] \in ScenarioLines
           /\ HasStatement(lines, StmtProgramId)
           /\ HasStatement(lines, StmtCopy)
           /\ HasStatement(lines, StmtCall)

\* C2: a text made of PROGRAM-ID. PAYROLL. and COPY CUSTREC. and
\* CALL "VALIDATE"., each on its own line with or without a six-character
\* sequence number, yields program_id PAYROLL and the dependency set
\* {CUSTREC, VALIDATE}.
C2_PayrollScenario ==
    (Returned /\ IsPayrollText) =>
        /\ "program_id" \in DOMAIN ast
        /\ ast.program_id = Payroll
        /\ SetOf(ast.dependencies) = {Custrec, Validate}

\* the keys of a successful FactSet
SuccessKeys == DOMAIN (CHOOSE a \in SuccessAsts(<<>>, <<>>) : TRUE)

\* C3: when the extraction raises, the returned FactSet has every key of a
\* successful one, program_id and the complexity included, at its empty or
\* zero default, and an error marker.
C3_ErrorAstCarriesAllFields ==
    (Returned /\ ~file_content.is_str) =>
        /\ IsErrorAst(ast)
        /\ SuccessKeys \subseteq DOMAIN ast
        /\ ast.program_id = <<>>
        /\ ast.dependencies = <<>>
        /\ ast.procedures = {}
        /\ ast.line_count = 0

----------------------------------------------------------------------------
(* extract_cobol_files                                                     *)

cobol_extensions ==
    { <<".","c","b","l">>, <<".","c","o","b">>, <<".","c","o","b","o","l">>,
      <<".","c","p","y">> }

\* the second component of os.path.splitext: the text from the last dot on,
\* empty when there is no dot or only leading dots stand before it
splitext_ext(name) ==
    LET dots == {i \in 1..Len(name) : name[i] = "."}
        last == CHOOSE i \in dots : \A j \in dots : j <= i
    IN  IF dots = {} THEN <<>>
        ELSE IF \A j \in 1..(last-1) : name[j] = "." THEN <<>>
        ELSE SubSeq(name, last, Len(name))

\* ext in cobol_extensions, for ext of os.path.splitext(file.lower())
IsCobolFile(name) == splitext_ext(lower(name)) \in cobol_extensions

\* os.path.join(root, file)
path_join(root, name) == root \o <<"/">> \o name

\* the index the loop goes on with after the read of file i of n raised:
\* the inner except logs and continues with the next file
AbortAfterReadError(i, n) == n + 1

AfterReadError(i, n) == i + 1

MaxFiles == 5

RootDir == <<"t","e","m","p">>

\* the files a directory may hold: five with a recognized extension, one of
\* them unreadable, one with another extension and one hidden file named .cbl
FileKinds ==
    { [name |-> <<"P","A","Y",".","c","b","l">>, readable |-> TRUE,
       content |-> <<"0","0","0","1","0","0"," ","C","O","P","Y"," ","R","E","C",".">>],
      [name |-> <<"T","A","X",".","C","O","B">>, readable |-> TRUE,
       content |-> <<"P","R","O","G","R","A","M","-","I","D","."," ","G","L",".">>],
      [name |-> <<"R","E","C",".","c","p","y">>, readable |-> FALSE,
       content |-> <<>>],
      [name |-> <<"O","L","D",".","c","o","b","o","l">>, readable |-> TRUE,
       content |-> <<>>],
      [name |-> <<"G","L",".","c","o","b">>, readable |-> TRUE,
       content |-> <<"\n">>],
      [name |-> <<"n","o","t","e","s",".","t","x","t">>, readable |-> TRUE,
       content |-> <<"C","O","P","Y"," ","R","E","C",".">>],
      [name |-> <<".","c","b","l">>, readable |-> TRUE,
       content |-> <<>>] }

\* the listings of up to MaxFiles different files, in any order
Directories ==
    UNION {{d \in [1..n -> FileKinds] : \A i, j \in 1..n : i # j => d[i] # d[j]} :
               n \in 0..MaxFiles}

BatchInit ==
    /\ directory \in Directories
    /\ walk_pos = 1
    /\ cobol_files = <<>>
    /\ ParseIdle
    /\ StoreIdle
    /\ result = NoResult
    /\ pc = "walking"
    /\ WebIdle

\* one iteration of the loop over the files of os.walk
VisitFile ==
    /\ pc = "walking"
    /\ walk_pos <= Len(directory)
    /\ LET file == directory[walk_pos]
           path == path_join(RootDir, file.name)
       IN  IF IsCobolFile(file.name)
           THEN IF file.readable
                THEN /\ \E a \in parse_cobol_to_ast(Str(file.content), path) :
                            cobol_files' = Append(cobol_files, a)
                     /\ walk_pos' = walk_pos + 1
                ELSE /\ cobol_files' = cobol_files
                     /\ walk_pos' = AfterReadError(walk_pos, Len(directory))
           ELSE /\ cobol_files' = cobol_files
                /\ walk_pos' = walk_pos + 1
    /\ UNCHANGED <<directory, pc>>
    /\ UNCHANGED parseVars
    /\ UNCHANGED <<storeVars, result>>
    /\ UNCHANGED webVars

\* return cobol_files once the walk is over
ReturnFiles ==
    /\ pc = "walking"
    /\ walk_pos > Len(directory)
    /\ pc' = "extracted"
    /\ UNCHANGED batchVars
    /\ UNCHANGED parseVars
    /\ UNCHANGED <<storeVars, result>>
    /\ UNCHANGED webVars

BatchNext == VisitFile \/ ReturnFiles

SpecBatch == BatchInit /\ [][BatchNext]_vars

----------------------------------------------------------------------------
(* Properties of extract_cobol_files                                       *)

\* the indices of the files with a recognized extension whose read succeeds
ReadableCobol == {i \in 1..Len(directory) : IsCobolFile(directory[i].name) /\ directory[i].readable}

\* the indices of the files with a recognized extension
WithCobolExtension == {i \in 1..Len(directory) : IsCobolFile(directory[i].name)}

\* the k-th index of ReadableCobol in walk order
RECURSIVE NthReadable(_, _)
NthReadable(k, from) ==
    IF from \in ReadableCobol
    THEN IF k = 1 THEN from ELSE NthReadable(k-1, from+1)
    ELSE NthReadable(k, from+1)

\* C4: extract_cobol_files returns exactly one FactSet per file with a
\* recognized extension whose read succeeds, the FactSet parse_cobol_to_ast
\* gives for that file (error-marked or not); an unreadable file is skipped
\* and the files after it are still processed, so that five files with a
\* recognized extension, one of them unreadable, give four FactSets.
C4_OneFactSetPerReadableFile ==
    pc = "extracted" =>
        /\ Len(cobol_files) = Cardinality(ReadableCobol)
        /\ \A k \in 1..Len(cobol_files) :
               LET file == directory[NthReadable(k, 1)]
               IN  cobol_files[k] \in
                       parse_cobol_to_ast(Str(file.content), path_join(RootDir, file.name))
        /\ (Cardinality(WithCobolExtension) = 5 /\ Cardinality(ReadableCobol) = 4)
               => Len(cobol_files) = 4

\* five files with a recognized extension, the unreadable one not the last,
\* have been walked and four FactSets are returned
C4_Witness ==
    /\ pc = "extracted"
    /\ Cardinality(WithCobolExtension) = 5
    /\ Cardinality(ReadableCobol) = 4
    /\ \E i \in WithCobolExtension \ ReadableCobol : \E j \in ReadableCobol : i < j
    /\ Len(cobol_files) = 4

----------------------------------------------------------------------------
(* The table cobol_programs and store_cobol_program                        *)

\* the columns of CobolProgram kept in the model; file_path, source_code,
\* ast_structure, procedures, data_divisions, copybooks and business_rules go
\* through the same loop and are left out
Columns == {"program_id", "file_name", "dependencies", "complexity", "line_count"}

\* the columns declared nullable=False
NotNullColumns == {"program_id", "file_name"}

\* Python's None
None == <<"None">>

\* the value of a column of a new CobolProgram() that no key sets
ColumnDefault(c) == IF c = "line_count" THEN 0 ELSE None

\* program_data.get('program_id', 'unknown')
IdentityOf(program_data) ==
    IF "program_id" \in DOMAIN program_data THEN program_data.program_id ELSE Unknown

\* the index of the row filter_by(program_id=identity).first() returns, 0 for None
ExistingRow(rows, identity) ==
    IF \E k \in 1..Len(rows) : rows[k].program_id = identity
    THEN CHOOSE k \in 1..Len(rows) :
             /\ rows[k].program_id = identity
             /\ \A j \in 1..(k-1) : rows[j].program_id # identity
    ELSE 0

\* an update that leaves the row as it was
RowUntouched(row, program_data) == row

\* the loop setattr(existing, key, value) over the keys that are attributes
UpdatedRow(row, program_data) ==
    [c \in Columns |-> IF c \in DOMAIN program_data THEN program_data[c] ELSE row[c]]

\* CobolProgram() followed by the same loop
NewRow(program_data) ==
    [c \in Columns |-> IF c \in DOMAIN program_data THEN program_data[c] ELSE ColumnDefault(c)]

\* the rows of the session before the commit
RowsToCommit(rows, program_data) ==
    LET k == ExistingRow(rows, IdentityOf(program_data))
    IN  IF k # 0 THEN [rows EXCEPT ![k] = UpdatedRow(rows[k], program_data)]
        ELSE Append(rows, NewRow(program_data))

\* the constraints the database checks at the commit: program_id unique, and
\* program_id and file_name not null
ConstraintsHold(rows) ==
    /\ \A i, j \in 1..Len(rows) : i # j => rows[i].program_id # rows[j].program_id
    /\ \A i \in 1..Len(rows) : \A c \in NotNullColumns : rows[i][c] # None

MaxRecords == 2

DigitNames == <<"1","2","3","4","5","6","7","8","9">>

\* the identities P1, P2, ...
Pid(i) == <<"P", DigitNames[i]>>

DepA == <<"A">>
DepB == <<"B">>
DepC == <<"C">>
DepD == <<"D">>
DepE == <<"E">>
DepF == <<"F">>
DepA1 == <<"A","1">>

\* the facts of a unit other than its identity and file name
Unit(deps, lines, complexity) ==
    [dependencies |-> deps, line_count |-> lines, complexity |-> complexity]

StoreUnits ==
    { Unit(<<>>, 99, "Low"),
      Unit(<<DepA, DepB>>, 100, "Medium"),
      Unit(<<DepB, DepA, DepB>>, 1000, "High") }

DotCbl == <<".","c","b","l">>

\* the dictionary _prepare_program_data builds for a unit, with its columns
\* of the model
ProgramData(id, unit) ==
    [program_id |-> id, file_name |-> id \o DotCbl,
     dependencies |-> unit.dependencies, complexity |-> unit.complexity,
     line_count |-> unit.line_count]

\* a dictionary without the key program_id
ProgramDataWithoutId(unit) ==
    [file_name |-> Unknown,
     dependencies |-> unit.dependencies, complexity |-> unit.complexity,
     line_count |-> unit.line_count]

StoreIds == {Unknown} \cup {Pid(i) : i \in 1..MaxRecords}

StoreInputs ==
    {ProgramData(id, u) : id \in StoreIds, u \in StoreUnits}
        \cup {ProgramDataWithoutId(u) : u \in StoreUnits}

StoreInit ==
    /\ store = <<>>
    /\ last_call = NoCall
    /\ last_stored = EmptyFunction
    /\ ParseIdle
    /\ BatchIdle
    /\ result = NoResult
    /\ pc = "storing"
    /\ WebIdle

\* one call of store_cobol_program(program_data); the commit raises when a
\* constraint fails, and may raise for any other database error
StoreCobolProgram ==
    /\ pc = "storing"
    /\ \E program_data \in StoreInputs, commit_ok \in BOOLEAN :
           LET identity == IdentityOf(program_data)
               rows == RowsToCommit(store, program_data)
               ok == commit_ok /\ ConstraintsHold(rows)
           IN  /\ store' = IF ok THEN rows ELSE store
               /\ last_call' = [made |-> TRUE,
                                identity |-> identity,
                                existed |-> ExistingRow(store, identity) # 0,
                                rows_before |-> Len(store),
                                returned |-> ok]
               /\ last_stored' =
                      IF ok
                      THEN [id \in DOMAIN last_stored \cup {identity} |->
                               IF id = identity THEN program_data ELSE last_stored[id]]
                      ELSE last_stored
    /\ UNCHANGED <<parseVars, batchVars, result, pc>>
    /\ UNCHANGED webVars

StoreNext == StoreCobolProgram

SpecStore == StoreInit /\ [][StoreNext]_vars

----------------------------------------------------------------------------
(* Properties of store_cobol_program                                       *)

\* the row of the store with the identity id matches data in every field data has
RowMatches(id, data) ==
    \E k \in 1..Len(store) :
        /\ store[k].program_id = id
        /\ \A c \in DOMAIN data \cap Columns : store[k][c] = data[c]

\* C5: the store never holds two records with one program_id; a call for an
\* identity that is already stored and that returns True leaves the number of
\* records as it was; and for every identity the record has the fields of the
\* most recent call for it that returned True.
C5_UpsertKeyedByIdentity ==
    /\ \A i, j \in 1..Len(store) : i # j => store[i].program_id # store[j].program_id
    /\ (last_call.made /\ last_call.existed /\ last_call.returned)
           => Len(store) = last_call.rows_before
    /\ \A id \in DOMAIN last_stored : RowMatches(id, last_stored[id])

\* a second successful call for a stored identity has replaced the fields of
\* the first one, next to another record
C5_Witness ==
    /\ last_call.made /\ last_call.existed /\ last_call.returned
    /\ Len(store) = 2
    /\ \E k \in 1..Len(store) :
           /\ store[k].program_id = last_call.identity
           /\ store[k].line_count = 1000
           /\ store[k].file_name # Unknown

----------------------------------------------------------------------------
(* analytics_service.py: the three reports over get_all_programs()         *)

\* CobolProgram.to_dict, for the columns of the model
to_dict(row) ==
    [programId |-> row.program_id,
     fileName |-> row.file_name,
     dependencies |-> row.dependencies,
     complexity |-> row.complexity,
     lineCount |-> row.line_count]

\* get_all_programs() when the query succeeds
get_all_programs(rows) == [i \in 1..Len(rows) |-> to_dict(rows[i])]

\* the characters of names in code-point order
CharOrder ==
    <<"-">> \o <<"0","1","2","3","4","5","6","7","8","9">> \o UpperChars \o <<"_">> \o LowerChars

CharRank(c) == CHOOSE i \in 1..Len(CharOrder) : CharOrder[i] = c

\* a < b for two strings, as Python compares them
RECURSIVE StrLess(_, _)
StrLess(a, b) ==
    IF Len(b) = 0 THEN FALSE
    ELSE IF Len(a) = 0 THEN TRUE
    ELSE IF a[1] = b[1] THEN StrLess(Tail(a), Tail(b))
    ELSE CharRank(a[1]) < CharRank(b[1])

\* one step of sorted(): x goes behind every element that is not greater
RECURSIVE InsertSorted(_, _)
InsertSorted(sorted_list, x) ==
    IF Len(sorted_list) = 0 THEN <<x>>
    ELSE IF StrLess(x, sorted_list[1]) THEN <<x>> \o sorted_list
    ELSE <<sorted_list[1]>> \o InsertSorted(Tail(sorted_list), x)

\* sorted(names): ascending, repeated names kept
RECURSIVE sorted(_)
sorted(names) ==
    IF Len(names) = 0 THEN <<>>
    ELSE InsertSorted(sorted(SubSeq(names, 1, Len(names)-1)), names[Len(names)])

\* number of occurrences of x in a list
RECURSIVE CountIn(_, _)
CountIn(list, x) ==
    IF Len(list) = 0 THEN 0
    ELSE (IF list[1] = x THEN 1 ELSE 0) + CountIn(Tail(list), x)

\* the keys of a dictionary filled by scanning list, in insertion order
RECURSIVE FirstSeen(_)
FirstSeen(list) ==
    IF Len(list) = 0 THEN <<>>
    ELSE LET front == FirstSeen(SubSeq(list, 1, Len(list)-1))
             x == list[Len(list)]
         IN  IF x \in SetOf(front) THEN front ELSE Append(front, x)

\* the items (key, count) of such a dictionary
CountItems(list) ==
    LET keys == FirstSeen(list)
    IN  [i \in 1..Len(keys) |-> <<keys[i], CountIn(list, keys[i])>>]

\* a sort step that puts an item before the items of equal count
InsertBeforeEqual(items, x) ==
    LET before == {i \in 1..Len(items) : items[i][2] > x[2]}
        n == Cardinality(before)
    IN  SubSeq(items, 1, n) \o <<x>> \o SubSeq(items, n+1, Len(items))

\* one step of the stable descending sort: the item goes behind every item
\* whose count is not smaller
RECURSIVE InsertByCount(_, _)
InsertByCount(items, x) ==
    IF Len(items) = 0 THEN <<x>>
    ELSE IF items[1][2] >= x[2] THEN <<items[1]>> \o InsertByCount(Tail(items), x)
    ELSE <<x>> \o items

\* sorted(items, key=lambda x: x[1], reverse=True): descending by count, items
\* of equal count in their original order
RECURSIVE SortedByCount(_)
SortedByCount(items) ==
    IF Len(items) = 0 THEN <<>>
    ELSE InsertByCount(SortedByCount(SubSeq(items, 1, Len(items)-1)), items[Len(items)])

\* list[:n]
Take(list, n) == SubSeq(list, 1, IF Len(list) < n THEN Len(list) ELSE n)

TopN == 5

\* _get_most_common_items: Counter(items).most_common(limit)
_get_most_common_items(items, limit) ==
    LET top == Take(SortedByCount(CountItems(items)), limit)
    IN  [i \in 1..Len(top) |-> [name |-> top[i][1], count |-> top[i][2]]]

SmallLimit == 100
MediumSizeLimit == 500
LargeLimit == 1000

\* a categorisation whose limits belong to the lower bucket
SizeCategoryInclusive(line_count) ==
    IF line_count <= SmallLimit THEN "Small (< 100 lines)"
    ELSE IF line_count <= MediumSizeLimit THEN "Medium (100-500 lines)"
    ELSE IF line_count <= LargeLimit THEN "Large (500-1000 lines)"
    ELSE "Very Large (> 1000 lines)"

SizeCategory(line_count) ==
    IF line_count < SmallLimit THEN "Small (< 100 lines)"
    ELSE IF line_count < MediumSizeLimit THEN "Medium (100-500 lines)"
    ELSE IF line_count < LargeLimit THEN "Large (500-1000 lines)"
    ELSE "Very Large (> 1000 lines)"

SizeCategories ==
    {"Small (< 100 lines)", "Medium (100-500 lines)", "Large (500-1000 lines)",
     "Very Large (> 1000 lines)"}

_categorize_by_size(programs) ==
    [c \in SizeCategories |->
        Cardinality({i \in 1..Len(programs) : SizeCategory(programs[i].lineCount) = c})]

\* a total that stops at the first program
LineCountOfFirst(programs) ==
    IF Len(programs) = 0 THEN 0 ELSE programs[1].lineCount

RECURSIVE SumLineCounts(_)
SumLineCounts(programs) ==
    IF Len(programs) = 0 THEN 0
    ELSE programs[1].lineCount + SumLineCounts(Tail(programs))

\* the dependencies of all programs, one list after the other
RECURSIVE AllDependencies(_)
AllDependencies(programs) ==
    IF Len(programs) = 0 THEN <<>>
    ELSE programs[1].dependencies \o AllDependencies(Tail(programs))

generate_codebase_overview(programs) ==
    IF Len(programs) = 0
    THEN [total_programs |-> 0,
          message |-> "No COBOL programs found. Please upload and process your files first."]
    ELSE LET total_programs == Len(programs)
             total_lines == SumLineCounts(programs)
             all_dependencies == AllDependencies(programs)
         IN  [total_programs |-> total_programs,
              total_lines_of_code |-> total_lines,
              average_lines_per_program |->
                  IF total_programs > 0 THEN total_lines \div total_programs ELSE 0,
              complexity_distribution |->
                  [c \in {programs[i].complexity : i \in 1..Len(programs)} |->
                      Cardinality({i \in 1..Len(programs) : programs[i].complexity = c})],
              total_unique_dependencies |-> Cardinality(SetOf(all_dependencies)),
              most_common_dependencies |-> _get_most_common_items(all_dependencies, TopN),
              size_distribution |-> _categorize_by_size(programs),
              generated_at |-> "now"]

\* one edge for a program's first dependency only
EdgesOfFirstDependency(program) ==
    [k \in 1..(IF Len(program.dependencies) > 0 THEN 1 ELSE 0) |->
        [source |-> program.programId, target |-> program.dependencies[k],
         type |-> "depends_on"]]

\* the edges appended for one program
EdgesOf(program) ==
    [k \in 1..Len(program.dependencies) |->
        [source |-> program.programId, target |-> program.dependencies[k],
         type |-> "depends_on"]]

\* the list relationships after the loop over the programs
RECURSIVE Relationships(_)
Relationships(programs) ==
    IF Len(programs) = 0 THEN <<>>
    ELSE EdgesOf(programs[1]) \o Relationships(Tail(programs))

\* the programs counted when every edge is counted instead of every program
CountEdges(programs) == Len(Relationships(programs))

\* len([p for p in programs if p.get('dependencies')])
programs_with_deps(programs) ==
    Cardinality({i \in 1..Len(programs) : Len(programs[i].dependencies) > 0})

analyze_program_relationships(programs) ==
    IF Len(programs) = 0
    THEN [message |-> "No programs available for relationship analysis"]
    ELSE LET relationships == Relationships(programs)
             targets == [k \in 1..Len(relationships) |-> relationships[k].target]
             with_deps == programs_with_deps(programs)
         IN  [total_relationships |-> Len(relationships),
              programs_with_dependencies |-> with_deps,
              isolated_programs |-> Len(programs) - with_deps,
              most_depended_on_modules |-> Take(SortedByCount(CountItems(targets)), TopN),
              dependency_graph |->
                  [id \in {programs[i].programId : i \in 1..Len(programs)} |->
                      LET last == CHOOSE i \in 1..Len(programs) :
                                      /\ programs[i].programId = id
                                      /\ \A j \in (i+1)..Len(programs) : programs[j].programId # id
                      IN  programs[last].dependencies],
              relationship_details |-> relationships]

HighDependencyLimit == 10

\* the entries a per-program test appends, in the order of the programs
RECURSIVE Selected(_, _)
Selected(programs, kind) ==
    IF Len(programs) = 0 THEN <<>>
    ELSE LET p == programs[1]
             rest == Selected(Tail(programs), kind)
         IN  CASE kind = "high_complexity" ->
                    IF p.complexity = "High"
                    THEN <<[program_id |-> p.programId, line_count |-> p.lineCount,
                            complexity |-> p.complexity]>> \o rest
                    ELSE rest
               [] kind = "large" ->
                    IF p.lineCount > LargeLimit
                    THEN <<[program_id |-> p.programId, line_count |-> p.lineCount]>> \o rest
                    ELSE rest
               [] kind = "highly_dependent" ->
                    IF Len(p.dependencies) > HighDependencyLimit
                    THEN <<[program_id |-> p.programId,
                            dependency_count |-> Len(p.dependencies)]>> \o rest
                    ELSE rest
               [] kind = "isolated" ->
                    IF Len(p.dependencies) = 0
                    THEN <<[program_id |-> p.programId, line_count |-> p.lineCount]>> \o rest
                    ELSE rest

\* the key of a program in dependency_patterns: tuple(sorted(dependencies))
PatternOf(program) == sorted(program.dependencies)

\* the keys of dependency_patterns in insertion order: the patterns of the
\* programs with more than one entry in their list
RECURSIVE PatternKeys(_)
PatternKeys(programs) ==
    IF Len(programs) = 0 THEN <<>>
    ELSE LET front == PatternKeys(SubSeq(programs, 1, Len(programs)-1))
             deps == PatternOf(programs[Len(programs)])
         IN  IF Len(deps) > 1 /\ deps \notin SetOf(front) THEN Append(front, deps)
             ELSE front

\* dependency_patterns[deps]: the identities appended under one key
RECURSIVE ProgramsOfPattern(_, _)
ProgramsOfPattern(programs, deps) ==
    IF Len(programs) = 0 THEN <<>>
    ELSE IF PatternOf(programs[1]) = deps
         THEN <<programs[1].programId>> \o ProgramsOfPattern(Tail(programs), deps)
         ELSE ProgramsOfPattern(Tail(programs), deps)

\* the entries appended to duplicate_dependencies
RECURSIVE DuplicateEntries(_, _)
DuplicateEntries(programs, keys) ==
    IF Len(keys) = 0 THEN <<>>
    ELSE LET programs_list == ProgramsOfPattern(programs, keys[1])
             rest == DuplicateEntries(programs, Tail(keys))
         IN  IF Len(programs_list) > 1
             THEN <<[pattern |-> keys[1], programs |-> programs_list]>> \o rest
             ELSE rest

identify_refactoring_opportunities(programs) ==
    IF Len(programs) = 0
    THEN [message |-> "No programs available for analysis"]
    ELSE [high_complexity_programs |-> Selected(programs, "high_complexity"),
          large_programs |-> Selected(programs, "large"),
          highly_dependent_programs |-> Selected(programs, "highly_dependent"),
          isolated_programs |-> Selected(programs, "isolated"),
          duplicate_dependencies |-> DuplicateEntries(programs, PatternKeys(programs))]

MaxPrograms == 3

Units ==
    StoreUnits \cup
    { Unit(<<DepB, DepA>>, 499, "Medium"),
      Unit(<<DepA, DepA>>, 500, "High"),
      Unit(<<DepC>>, 999, "Unknown"),
      Unit(<<DepF, DepE, DepD, DepC, DepA1>>, 1001, "Low") }

\* the stores of up to MaxPrograms records P1, P2, ... that calls of
\* store_cobol_program leave behind
AnalyticsStores ==
    UNION {{[i \in 1..n |-> NewRow(ProgramData(Pid(i), us[i]))] : us \in [1..n -> Units]} :
               n \in 0..MaxPrograms}

AnalyticsInit ==
    /\ store \in AnalyticsStores
    /\ last_call = NoCall
    /\ last_stored = EmptyFunction
    /\ result = NoResult
    /\ ParseIdle
    /\ BatchIdle
    /\ pc = "analysing"
    /\ WebIdle

GenerateCodebaseOverview ==
    /\ pc = "analysing"
    /\ result' = [op |-> "generate_codebase_overview",
                  report |-> generate_codebase_overview(get_all_programs(store))]
    /\ UNCHANGED <<parseVars, batchVars, storeVars, pc>>
    /\ UNCHANGED webVars

AnalyzeProgramRelationships ==
    /\ pc = "analysing"
    /\ result' = [op |-> "analyze_program_relationships",
                  report |-> analyze_program_relationships(get_all_programs(store))]
    /\ UNCHANGED <<parseVars, batchVars, storeVars, pc>>
    /\ UNCHANGED webVars

IdentifyRefactoringOpportunities ==
    /\ pc = "analysing"
    /\ result' = [op |-> "identify_refactoring_opportunities",
                  report |-> identify_refactoring_opportunities(get_all_programs(store))]
    /\ UNCHANGED <<parseVars, batchVars, storeVars, pc>>
    /\ UNCHANGED webVars

AnalyticsNext ==
    \/ GenerateCodebaseOverview
    \/ AnalyzeProgramRelationships
    \/ IdentifyRefactoringOpportunities

Spec == AnalyticsInit /\ [][AnalyticsNext]_vars

----------------------------------------------------------------------------
(* Properties of the analytics reports                                     *)

\* the last operation was op, and result holds its report
Reported(op) == "op" \in DOMAIN result /\ result.op = op

\* the units the reports were computed from
StoredUnits == get_all_programs(store)

\* the set of names in the dependency list of unit i
DependencySetOf(i) == SetOf(StoredUnits[i].dependencies)

\* C6: with zero units stored, generate_codebase_overview returns a report
\* that contains average_lines_per_program with value 0.
C6_EmptyStoreAverageZero ==
    (Reported("generate_codebase_overview") /\ Len(store) = 0) =>
        /\ "average_lines_per_program" \in DOMAIN result.report
        /\ result.report.average_lines_per_program = 0

\* units i and j are listed in one entry of duplicate_dependencies
InSameEntry(i, j) ==
    \E e \in 1..Len(result.report.duplicate_dependencies) :
        /\ StoredUnits[i].programId \in SetOf(result.report.duplicate_dependencies[e].programs)
        /\ StoredUnits[j].programId \in SetOf(result.report.duplicate_dependencies[e].programs)

UnitsWithSet(S) == {StoredUnits[i].programId : i \in {k \in 1..Len(store) : DependencySetOf(k) = S}}

\* the dependency sets of two or more names that two or more units share
SharedSets ==
    {S \in {DependencySetOf(i) : i \in 1..Len(store)} :
         Cardinality(S) >= 2 /\ Cardinality(UnitsWithSet(S)) >= 2}

\* three units: two whose lists are the two names A and B, one without dependencies
IsScenarioB ==
    /\ Len(store) = 3
    /\ Cardinality({i \in 1..3 : store[i].dependencies \in {<<DepA, DepB>>, <<DepB, DepA>>}}) = 2
    /\ Cardinality({i \in 1..3 : store[i].dependencies = <<>>}) = 1

FirstSeenAt(target) ==
    CHOOSE k \in 1..Len(AllDependencies(StoredUnits)) :
        /\ AllDependencies(StoredUnits)[k] = target
        /\ \A j \in 1..(k-1) : AllDependencies(StoredUnits)[j] # target

\* the number of edges whose target is the name
FanIn(target) ==
    Cardinality({<<i, k>> \in (1..Len(store)) \X (1..5) :
                     k <= Len(StoredUnits[i].dependencies)
                     /\ StoredUnits[i].dependencies[k] = target})

AllTargets == SetOf(AllDependencies(StoredUnits))

\* C9: most_depended_on_modules lists at most 5 pairs (target, count), count
\* being the number of edges to the target, by count descending, targets of
\* equal count in first-seen order, and no target left out has a higher count
\* than a listed one (all targets are listed when there are 5 at most).
C9_FanInRanking ==
    (Reported("analyze_program_relationships") /\ Len(store) > 0) =>
        LET m == result.report.most_depended_on_modules
        IN  /\ Len(m) <= 5
            /\ Len(m) = (IF Cardinality(AllTargets) < 5 THEN Cardinality(AllTargets) ELSE 5)
            /\ \A i \in 1..Len(m) : m[i][1] \in AllTargets /\ m[i][2] = FanIn(m[i][1])
            /\ \A i, j \in 1..Len(m) :
                   i < j => \/ m[i][2] > m[j][2]
                            \/ (m[i][2] = m[j][2] /\ FirstSeenAt(m[i][1]) < FirstSeenAt(m[j][1]))
            /\ \A t \in AllTargets \ {m[i][1] : i \in 1..Len(m)} :
                   \A i \in 1..Len(m) : FanIn(t) <= m[i][2]

\* more than five targets, five listed, the first with a count above one, and
\* two listed targets of equal count standing in first-seen order against
\* the alphabet
C9_Witness ==
    /\ Reported("analyze_program_relationships")
    /\ Cardinality(AllTargets) > 5
    /\ LET m == result.report.most_depended_on_modules
       IN  /\ Len(m) = 5
           /\ m[1][2] > 1
           /\ \E i, j \in 1..Len(m) :
                  i < j /\ m[i][2] = m[j][2] /\ StrLess(m[j][1], m[i][1])

\* C10: over a non-empty store, isolated_programs plus
\* programs_with_dependencies is the number of units, the first counts the
\* units with an empty dependency list, the second those with one dependency
\* or more.
C10_IsolatedPlusDependentIsTotal ==
    (Reported("analyze_program_relationships") /\ Len(store) > 0) =>
        /\ result.report.isolated_programs + result.report.programs_with_dependencies
               = Len(store)
        /\ result.report.isolated_programs
               = Cardinality({i \in 1..Len(store) : store[i].dependencies = <<>>})
        /\ result.report.programs_with_dependencies
               = Cardinality({i \in 1..Len(store) : store[i].dependencies # <<>>})

\* a report over one isolated unit and two units with several dependencies each
C10_Witness ==
    /\ Reported("analyze_program_relationships")
    /\ Len(store) = 3
    /\ result.report.isolated_programs = 1
    /\ result.report.programs_with_dependencies = 2
    /\ result.report.total_relationships > 3

\* the number of stored units whose line count lies in lo..hi
UnitsBetween(lo, hi) ==
    Cardinality({i \in 1..Len(store) : store[i].line_count >= lo /\ store[i].line_count <= hi})

\* the number of stored units whose line count is lo or more
UnitsFrom(lo) == Cardinality({i \in 1..Len(store) : store[i].line_count >= lo})

----------------------------------------------------------------------------
(* _estimate_complexity under analysis                                     *)

\* the texts of one to MaxLines lines taken from a pool of lines
TextsOf(pool) == UNION {{join(ls) : ls \in [1..n -> pool]} : n \in 1..MaxLines}

\* s + s + ... + s, n times
RECURSIVE Repeat(_, _)
Repeat(s, n) == IF n = 0 THEN <<>> ELSE s \o Repeat(s, n-1)

\* a line behind a sequence number and the indicator column
Numbered(stmt) == SeqNo \o <<" ">> \o stmt

\* one declaration
LineDeclaration == Numbered(<<"0","1"," ","W","S","-","A"," ","P","I","C"," ","X",".">>)

\* no keyword and no declaration
LineMove == Numbered(<<"M","O","V","E"," ","A"," ","T","O"," ","B",".">>)

\* nine keyword occurrences
LineNineKeywords == Numbered(<<"I","F"," ","A"," ","P","E","R","F","O","R","M"," ","B"," ","U","N","T","I","L"," ","C"," ","W","H","E","N"," ","D"," ","W","H","I","L","E"," ","E"," ","I","F"," ","F"," ","W","H","E","N"," ","G"," ","P","E","R","F","O","R","M"," ","H"," ","U","N","T","I","L"," ","J">>)

\* twenty-four and twenty-five keyword occurrences
LineManyKeywords == Numbered(Repeat(<<"I","F"," ">>, 24))
LineMoreKeywords == Numbered(Repeat(<<"I","F"," ">>, 25))

\* no statement word among the keywords and no digit, five identifiers that
\* contain the letters IF
LineIdentifiers == Numbered(<<"M","O","V","E"," ","N","O","T","I","F","Y"," ","T","O"," ","M","O","D","I","F","Y","."," ","A","D","D"," ","S","P","E","C","I","F","I","C"," ","T","O"," ","U","N","I","F","I","E","D","."," ","D","I","S","P","L","A","Y"," ","V","E","R","I","F","Y",".">>)

ComplexityLines ==
    {LineDeclaration, LineMove, LineNineKeywords, LineManyKeywords, LineMoreKeywords,
     LineIdentifiers}

\* the arguments under analysis: the canonical text of every text over the
\* pool, as parse_cobol_to_ast passes it, and an argument that is not a string
ComplexityInputs == {Str(Normalize(t)) : t \in TextsOf(ComplexityLines)} \cup {NotAString}

ComplexityInit ==
    /\ file_content \in ComplexityInputs
    /\ file_path = <<>>
    /\ ast = NoAst
    /\ BatchIdle
    /\ StoreIdle
    /\ result = NoResult
    /\ pc = "estimate"
    /\ WebIdle

\* one call of _estimate_complexity(content)
EstimateComplexity ==
    /\ pc = "estimate"
    /\ result' = [op |-> "_estimate_complexity", report |-> _estimate_complexity(file_content)]
    /\ pc' = "estimated"
    /\ UNCHANGED <<parseVars, batchVars, storeVars>>
    /\ UNCHANGED webVars

ComplexityNext == EstimateComplexity

SpecComplexity == ComplexityInit /\ [][ComplexityNext]_vars

\* the number of places of the text at which the keyword stands
Occurrences(text, kw) == Cardinality(LitPlaces(text, kw))

\* the score of a text: the occurrences of IF, WHEN, PERFORM, UNTIL
\* and WHILE plus the declaration-shaped tokens
Score(text) ==
    Occurrences(text, <<"I","F">>) + Occurrences(text, <<"W","H","E","N">>)
        + Occurrences(text, <<"P","E","R","F","O","R","M">>)
        + Occurrences(text, <<"U","N","T","I","L">>)
        + Occurrences(text, <<"W","H","I","L","E">>)
        + data_count(text)

\* C12: _estimate_complexity returns Low exactly when the score is below 10,
\* Medium exactly when it is from 10 to 49, High exactly when it is 50 or
\* more; it returns Unknown only when the computation fails (the argument is
\* not a string), and every call returns one of the four values.
C12_ComplexityThresholds ==
    Reported("_estimate_complexity") =>
        /\ result.report \in {"Low", "Medium", "High", "Unknown"}
        /\ (result.report = "Unknown") <=> ~file_content.is_str
        /\ file_content.is_str =>
               LET score == Score(file_content.chars)
               IN  /\ (result.report = "Low") <=> (score < 10)
                   /\ (result.report = "Medium") <=> (score >= 10 /\ score <= 49)
                   /\ (result.report = "High") <=> (score >= 50)

\* a text of score 49, the highest that is Medium
C12_Witness ==
    /\ Reported("_estimate_complexity")
    /\ file_content.is_str
    /\ Score(file_content.chars) = 49
    /\ result.report = "Medium"

\* the words of a text: its maximal runs of letters, digits and hyphens
WordsOf(text) ==
    {SubSeq(text, i, j) : <<i, j>> \in
        {<<a, b>> \in (1..Len(text)) \X (1..Len(text)) :
            /\ a <= b
            /\ \A k \in a..b : text[k] \in NameChars
            /\ (a = 1 \/ text[a-1] \notin NameChars)
            /\ (b = Len(text) \/ text[b+1] \notin NameChars)}}

\* the text has a word IF, WHEN, PERFORM, UNTIL or WHILE
HasDecisionWord(text) == WordsOf(text) \cap SetOf(decision_keywords) # {}

\* the text has a digit, without which it has no level number and no declaration
HasDigit(text) == \E i \in 1..Len(text) : text[i] \in DigitChars

\* C13: a text without a word IF, WHEN, PERFORM, UNTIL or WHILE and without a
\* data declaration is given complexity Low, whatever other words and
\* identifiers it contains.
C13_NoKeywordNoDeclarationIsLow ==
    (/\ Reported("_estimate_complexity")
     /\ file_content.is_str
     /\ ~HasDecisionWord(file_content.chars)
     /\ ~HasDigit(file_content.chars)) => result.report = "Low"

----------------------------------------------------------------------------
(* Properties of the normalizer and of the extracted facts                 *)

\* the line starts with six digits, a sequence number
HasSeqNo(line) == Len(line) >= 6 /\ \A k \in 1..6 : line[k] \in DigitChars

\* the statement text of a line: the line without its sequence number
CodeArea(line) == IF HasSeqNo(line) THEN SubSeq(line, 7, Len(line)) ELSE line

\* the PROGRAM-ID declaration that a line holds, if it holds one
DeclarationOn(line) == MatchKeywordName(upper(strip(CodeArea(line))), 1, KwProgramId)

\* the lines of the input that hold a PROGRAM-ID declaration and are not
\* comment lines
DeclarationLines ==
    {i \in 1..Len(split(file_content.chars)) :
        /\ ~startswith(strip(CodeArea(split(file_content.chars)[i])), <<"*">>)
        /\ DeclarationOn(split(file_content.chars)[i]).ok}

FirstDeclarationLine == CHOOSE i \in DeclarationLines : \A j \in DeclarationLines : i <= j

\* C14: program_id is the uppercase name of the first PROGRAM-ID declaration
\* of the unit; without such a declaration it is the empty string, and the
\* FactSet has no error marker.
C14_ProgramIdIsFirstDeclaration ==
    (Returned /\ file_content.is_str) =>
        /\ ~IsErrorAst(ast)
        /\ IF DeclarationLines = {}
           THEN ast.program_id = <<>>
           ELSE ast.program_id
                    = DeclarationOn(split(file_content.chars)[FirstDeclarationLine]).group

----------------------------------------------------------------------------
(* parse_cobol_to_ast over units with data sections, procedures and        *)
(* fixed-format comment lines                                              *)

\* FILE SECTION. FD CUSTFILE. 01 CUST-REC.
LineFileSection == Numbered(<<"F","I","L","E"," ","S","E","C","T","I","O","N","."," ","F","D"," ","C","U","S","T","F","I","L","E","."," ","0","1"," ","C","U","S","T","-","R","E","C",".">>)

\* WORKING-STORAGE SECTION. 01 WS-FD PIC 9. 05 WS-B PIC X.
LineWorkingStorage == Numbered(<<"W","O","R","K","I","N","G","-","S","T","O","R","A","G","E"," ","S","E","C","T","I","O","N","."," ","0","1"," ","W","S","-","F","D"," ","P","I","C"," ","9","."," ","0","5"," ","W","S","-","B"," ","P","I","C"," ","X",".">>)

\* PROCEDURE DIVISION. PERFORM CALC-TAX. MOVE 1 TO WS-FD WS-B.
LineProcedure == Numbered(<<"P","R","O","C","E","D","U","R","E"," ","D","I","V","I","S","I","O","N","."," ","P","E","R","F","O","R","M"," ","C","A","L","C","-","T","A","X","."," ","M","O","V","E"," ","1"," ","T","O"," ","W","S","-","F","D"," ","W","S","-","B",".">>)

\* MAIN-LOGIC SECTION.
LineSection == Numbered(<<"M","A","I","N","-","L","O","G","I","C"," ","S","E","C","T","I","O","N",".">>)

\* CALC-TAX.
LineParagraph == Numbered(<<"C","A","L","C","-","T","A","X",".">>)

\* a comment line of the fixed format: the star in column 7, behind the sequence number
LineComment == SeqNo \o <<"*"," ","C","O","P","Y"," ","O","L","D","R","E","C","."," ","P","E","R","F","O","R","M"," ","O","L","D","-","P","A","R","A","."," ","0","1"," ","O","L","D","-","I","T","E","M",".">>

StructureLines ==
    {LineFileSection, LineWorkingStorage, LineProcedure, LineSection, LineParagraph,
     LineComment}

StructureInit ==
    /\ file_content \in {Str(t) : t \in TextsOf(StructureLines)}
    /\ file_path = SourcePath
    /\ ast = NoAst
    /\ BatchIdle
    /\ StoreIdle
    /\ result = NoResult
    /\ pc = "call"
    /\ WebIdle

SpecStructure == StructureInit /\ [][ParseNext]_vars

\* a comment line: its first visible character is a star, or the star stands
\* in column 7 behind a six-character sequence number
IsCommentLine(line) ==
    \/ startswith(strip(line), <<"*">>)
    \/ (HasSeqNo(line) /\ Len(line) >= 7 /\ line[7] = "*")

\* the input without its comment lines
WithoutComments ==
    join(SelectSeq(split(file_content.chars), LAMBDA line : ~IsCommentLine(line)))

\* C15: no comment line of the input, a line with the star in column 7 behind
\* a sequence number included, reaches the canonical text: dependencies,
\* procedures, data items and complexity are those of the input without its
\* comment lines.
C15_CommentLinesContributeNothing ==
    (Returned /\ file_content.is_str) =>
        LET facts == CHOOSE a \in SuccessAsts(WithoutComments, file_path) : TRUE
        IN  /\ SetOf(ast.dependencies) = SetOf(facts.dependencies)
            /\ ast.copybooks = facts.copybooks
            /\ ast.procedures = facts.procedures
            /\ ast.working_storage = facts.working_storage
            /\ ast.file_section = facts.file_section
            /\ ast.metadata.estimated_complexity = facts.metadata.estimated_complexity

\* the places of a canonical text at which a marker kw1 kw2 stands
MarkersAt(content, kw1, kw2) ==
    {k \in 1..Len(content) : MatchTwoWords(content, k, kw1, kw2).ok}

\* the smallest element of a set of places
FirstPlace(places) == CHOOSE k \in places : \A j \in places : k <= j

\* the place behind the first marker kw1 kw2, 0 when the text has none
RegionStart(content, kw1, kw2) ==
    LET markers == MarkersAt(content, kw1, kw2)
    IN  IF markers = {} THEN 0
        ELSE MatchTwoWords(content, FirstPlace(markers), kw1, kw2).end

\* a section marker (a word, SECTION.) or the PROCEDURE DIVISION marker
\* begins at place k, or the text ends there
RegionStopsAt(content, k) ==
    \/ k > Len(content)
    \/ MatchRunThenLit(content, k, WordChars, KwSectionDot).ok
    \/ MatchTwoWords(content, k, KwProcedure, KwDivision).ok

\* the end of the region that starts at place start
RegionEnd(content, start) ==
    FirstPlace({k \in start..(Len(content)+1) : RegionStopsAt(content, k)})

\* a numeric token followed by a word begins at place k
PairAt(content, k) ==
    /\ (k = 1 \/ content[k-1] \notin DigitChars)
    /\ MatchDataItem(content, k).ok

\* the places of the pairs that lie within the region from start to stop
PairPlaces(content, start, stop) ==
    IF start = 0 THEN {}
    ELSE {k \in start..(stop-1) : PairAt(content, k) /\ MatchDataItem(content, k).end <= stop}

\* the elements of a set of places, in ascending order
RECURSIVE Ascending(_)
Ascending(places) ==
    IF places = {} THEN <<>>
    ELSE <<FirstPlace(places)>> \o Ascending(places \ {FirstPlace(places)})

\* the pairs of ast.working_storage, in its order
StoredPairs ==
    [n \in 1..Len(ast.working_storage) |->
        <<ast.working_storage[n].level, ast.working_storage[n].name>>]

\* C16: working_storage holds the (level, name) pairs that lie between the
\* WORKING-STORAGE SECTION marker and the first following section marker,
\* PROCEDURE DIVISION marker or end of text, in the order of the text, and no
\* pair that stands only before the marker or behind the end of the region.
C16_WorkingStorageWithinRegion ==
    (Returned /\ file_content.is_str) =>
        LET content == Normalize(file_content.chars)
            start == RegionStart(content, KwWorkingStorage, KwSectionDot)
            stop == RegionEnd(content, start)
            inside == Ascending(PairPlaces(content, start, stop))
            pairs == [n \in 1..Len(inside) |-> MatchDataItem(content, inside[n]).group]
            outside == {k \in 1..Len(content) : PairAt(content, k)} \ SetOf(inside)
        IN  /\ StoredPairs = pairs
            /\ \A k \in outside :
                   MatchDataItem(content, k).group \in SetOf(StoredPairs)
                       => MatchDataItem(content, k).group \in SetOf(pairs)

\* a unit with a pair before the marker, two pairs within the region and a
\* pair behind the PROCEDURE DIVISION marker that ends the region
C16_Witness ==
    /\ Returned
    /\ file_content.is_str
    /\ Len(ast.working_storage) = 2
    /\ LET content == Normalize(file_content.chars)
           start == RegionStart(content, KwWorkingStorage, KwSectionDot)
           stop == RegionEnd(content, start)
       IN  /\ start > 0
           /\ \E k \in 1..start : PairAt(content, k)
           /\ MatchTwoWords(content, stop, KwProcedure, KwDivision).ok
           /\ \E k \in stop..Len(content) : PairAt(content, k)

\* the places within the region from start to stop at which FD and a name stand
DescriptorPlaces(content, start, stop) ==
    IF start = 0 THEN {}
    ELSE {k \in start..(stop-1) :
              /\ MatchKeywordName(content, k, KwFD).ok
              /\ MatchKeywordName(content, k, KwFD).end <= stop}

\* C17: file_section holds the names that follow an FD marker within the
\* region from the FILE SECTION marker to the first following section
\* marker, PROCEDURE DIVISION marker or end of text, and no other name: the
\* text of the procedure division yields no file descriptor.
C17_FileSectionWithinRegion ==
    (Returned /\ file_content.is_str) =>
        LET content == Normalize(file_content.chars)
            start == RegionStart(content, KwFile, KwSectionDot)
            stop == RegionEnd(content, start)
            inside == Ascending(DescriptorPlaces(content, start, stop))
        IN  [n \in 1..Len(ast.file_section) |-> ast.file_section[n].name]
                = [n \in 1..Len(inside) |-> MatchKeywordName(content, inside[n], KwFD).group]

\* the structural keywords that are never a procedure
DenyList ==
    { <<"I","D","E","N","T","I","F","I","C","A","T","I","O","N">>,
      <<"E","N","V","I","R","O","N","M","E","N","T">>,
      <<"D","A","T","A">>,
      <<"P","R","O","C","E","D","U","R","E">>,
      <<"W","O","R","K","I","N","G","-","S","T","O","R","A","G","E">>,
      <<"F","I","L","E">>,
      <<"L","I","N","K","A","G","E">>,
      <<"L","O","C","A","L","-","S","T","O","R","A","G","E">>,
      <<"C","O","N","F","I","G","U","R","A","T","I","O","N">>,
      <<"I","N","P","U","T","-","O","U","T","P","U","T">>,
      <<"F","I","L","E","-","C","O","N","T","R","O","L">> }

\* the word characters that begin at place k are the beginning of a name
NameStartsAt(content, k) == k = 1 \/ content[k-1] \notin NameChars

\* the names that stand before SECTION.
SectionHeaders(content) ==
    {MatchSectionHeader(content, k).group :
        k \in {j \in 1..Len(content) :
                  NameStartsAt(content, j) /\ MatchSectionHeader(content, j).ok}}

\* the names of the lines that consist of one name and a period
ParagraphLabels(content) ==
    {SubSeq(line, 1, Len(line)-1) :
        line \in {l \in SetOf(split(content)) :
                     /\ Len(l) >= 2
                     /\ l[Len(l)] = "."
                     /\ \A k \in 1..(Len(l)-1) : l[k] \in NameChars}}

\* the names that follow PERFORM
PerformTargets(content) ==
    {MatchKeywordName(content, k, KwPerform).group :
        k \in {j \in 1..Len(content) : MatchKeywordName(content, j, KwPerform).ok}}

\* C18: the procedures of a FactSet are the section-header names, the
\* standalone one-word paragraph labels and the PERFORM targets of the
\* canonical text, without the names of the deny-list; each name is reported
\* once and no keyword of the deny-list is reported.
C18_ProceduresAreUnionMinusDenyList ==
    (Returned /\ file_content.is_str) =>
        LET content == Normalize(file_content.chars)
            found == SectionHeaders(content) \cup ParagraphLabels(content)
                         \cup PerformTargets(content)
            names == {proc.name : proc \in ast.procedures}
        IN  /\ names = found \ DenyList
            /\ names \cap DenyList = {}
            /\ Cardinality(ast.procedures) = Cardinality(names)
            /\ ast.metadata.procedure_count = Cardinality(names)

\* a unit with a section header of the deny-list, a paragraph label that is
\* also the target of a PERFORM, and that label reported
C18_Witness ==
    /\ Returned
    /\ file_content.is_str
    /\ LET content == Normalize(file_content.chars)
       IN  /\ SectionHeaders(content) \cap DenyList # {}
           /\ ParagraphLabels(content) \cap PerformTargets(content) # {}
           /\ Cardinality(ast.procedures) = 1

----------------------------------------------------------------------------
(* Two calls of parse_cobol_to_ast with the same arguments                 *)

\* a second call that starts from the lists the first call has filled
ParseCallKeepingLists ==
    /\ pc \in {"call", "returned"}
    /\ \E returned \in parse_cobol_to_ast(file_content, file_path) :
           IF pc = "call"
           THEN /\ ast' = returned
                /\ result' = result
                /\ pc' = "returned"
           ELSE /\ ast' = ast
                /\ result' = [op |-> "parse_cobol_to_ast",
                              report |-> [returned EXCEPT
                                              !.dependencies = ast.dependencies \o @,
                                              !.working_storage = ast.working_storage \o @]]
                /\ pc' = "returned again"
    /\ UNCHANGED <<file_content, file_path, batchVars, storeVars>>
    /\ UNCHANGED webVars

\* one call of parse_cobol_to_ast(file_content, file_path), the first or the
\* second of the process: the dictionary and its lists are created anew in
\* each call, nothing of an earlier call is read; the caller keeps the first
\* return value in ast and the second in result
ParseCall ==
    /\ pc \in {"call", "returned"}
    /\ \E returned \in parse_cobol_to_ast(file_content, file_path) :
           IF pc = "call"
           THEN /\ ast' = returned
                /\ result' = result
                /\ pc' = "returned"
           ELSE /\ ast' = ast
                /\ result' = [op |-> "parse_cobol_to_ast", report |-> returned]
                /\ pc' = "returned again"
    /\ UNCHANGED <<file_content, file_path, batchVars, storeVars>>
    /\ UNCHANGED webVars

ParseTwiceNext == ParseCall

\* the numbered statements of the payroll unit and a numbered lower-case CALL
TwiceLines ==
    {SeqNo \o StmtProgramId, SeqNo \o StmtCopy, SeqNo \o StmtCall,
     <<"0","0","0","1","0","0"," ","c","a","l","l"," ","'","c","u","s","t","r","e","c","'",".">>}

ParseTwiceInit ==
    /\ file_content \in {Str(t) : t \in TextsOf(TwiceLines)} \cup {NotAString}
    /\ file_path = SourcePath
    /\ ast = NoAst
    /\ BatchIdle
    /\ StoreIdle
    /\ result = NoResult
    /\ pc = "call"
    /\ WebIdle

SpecParseTwice == ParseTwiceInit /\ [][ParseTwiceNext]_vars

----------------------------------------------------------------------------
(* Totals of the codebase overview                                         *)

\* the line counts of the first n stored units, added up
RECURSIVE LinesOfFirst(_)
LinesOfFirst(n) == IF n = 0 THEN 0 ELSE store[n].line_count + LinesOfFirst(n-1)

\* the values of a function over a finite set of keys, added up
RECURSIVE SumOfCounts(_, _)
SumOfCounts(f, keys) ==
    IF keys = {} THEN 0
    ELSE LET key == CHOOSE k \in keys : TRUE
         IN  f[key] + SumOfCounts(f, keys \ {key})

\* C20: over one or more stored units, total_lines_of_code is the sum of the
\* units' line counts, average_lines_per_program is the floor of that sum
\* divided by the number of units, and the counts of complexity_distribution,
\* one per complexity that occurs, sum to the number of units.
C20_OverviewTotals ==
    (Reported("generate_codebase_overview") /\ Len(store) > 0) =>
        LET report == result.report
            total == LinesOfFirst(Len(store))
        IN  /\ report.total_programs = Len(store)
            /\ report.total_lines_of_code = total
            /\ report.average_lines_per_program * Len(store) <= total
            /\ total < (report.average_lines_per_program + 1) * Len(store)
            /\ DOMAIN report.complexity_distribution
                   = {store[i].complexity : i \in 1..Len(store)}
            /\ \A c \in DOMAIN report.complexity_distribution :
                   report.complexity_distribution[c]
                       = Cardinality({i \in 1..Len(store) : store[i].complexity = c})
            /\ SumOfCounts(report.complexity_distribution,
                           DOMAIN report.complexity_distribution) = Len(store)

\* an overview over three units whose line counts do not divide evenly and
\* that fall in two complexity classes
C20_Witness ==
    /\ Reported("generate_codebase_overview")
    /\ Len(store) = 3
    /\ result.report.total_lines_of_code % 3 # 0
    /\ result.report.average_lines_per_program > 0
    /\ Cardinality(DOMAIN result.report.complexity_distribution) = 2

----------------------------------------------------------------------------
(* generate_analytics_report: three sections, each behind its own query    *)

\* a value is Python's None; the comparison goes through the printed form
\* because a column holds a number, a text, a list or None
IsNone(value) == ToString(value) = ToString(None)

\* a failed query that still hands the rows to the section
GetAllProgramsIgnoringFailure(rows, query_ok) == get_all_programs(rows)

\* get_all_programs(): the dictionaries of the rows, [] when the query raises
GetAllPrograms(rows, query_ok) == IF query_ok THEN get_all_programs(rows) ELSE <<>>

\* the value every section returns from its except branch
ErrorReport == [error |-> "str(e)"]

\* sum(p.get('lineCount', 0) ...) raises on a lineCount of None and
\* all_dependencies.extend(deps) on dependencies of None
OverviewRaises(programs) ==
    \E i \in 1..Len(programs) :
        IsNone(programs[i].lineCount) \/ IsNone(programs[i].dependencies)

\* for dep in dependencies raises on dependencies of None
RelationshipsRaise(programs) ==
    \E i \in 1..Len(programs) : IsNone(programs[i].dependencies)

\* line_count > 1000 raises on a lineCount of None and len(dependencies) on
\* dependencies of None
RefactoringRaises(programs) ==
    \E i \in 1..Len(programs) :
        IsNone(programs[i].lineCount) \/ IsNone(programs[i].dependencies)

\* generate_codebase_overview() with its try/except
OverviewSection(programs) ==
    IF OverviewRaises(programs) THEN ErrorReport ELSE generate_codebase_overview(programs)

\* analyze_program_relationships() with its try/except
RelationshipsSection(programs) ==
    IF RelationshipsRaise(programs) THEN ErrorReport
    ELSE analyze_program_relationships(programs)

\* identify_refactoring_opportunities() with its try/except
RefactoringSection(programs) ==
    IF RefactoringRaises(programs) THEN ErrorReport
    ELSE identify_refactoring_opportunities(programs)

\* generate_dependency_visualization(): None without edges or when the
\* plotting raises, the HTML otherwise
generate_dependency_visualization(programs, plot_ok) ==
    LET relationship_data == RelationshipsSection(programs)
    IN  IF "relationship_details" \notin DOMAIN relationship_data THEN None
        ELSE IF Len(relationship_data.relationship_details) = 0 THEN None
        ELSE IF plot_ok THEN "html" ELSE None

\* generate_complexity_chart(): None without a distribution or when the
\* plotting raises, the HTML otherwise
generate_complexity_chart(programs, plot_ok) ==
    LET overview == OverviewSection(programs)
    IN  IF "complexity_distribution" \notin DOMAIN overview THEN None
        ELSE IF plot_ok THEN "html" ELSE None

\* generate_analytics_report(); query_ok[k] tells whether the k-th call of
\* get_all_programs succeeds
generate_analytics_report(rows, query_ok, visualization_enabled, plot_ok) ==
    LET report ==
            [generated_at |-> "now",
             codebase_overview |-> OverviewSection(GetAllPrograms(rows, query_ok[1])),
             relationship_analysis |->
                 RelationshipsSection(GetAllPrograms(rows, query_ok[2])),
             refactoring_opportunities |->
                 RefactoringSection(GetAllPrograms(rows, query_ok[3])),
             visualizations_available |-> visualization_enabled]
    IN  IF visualization_enabled
        THEN report @@
             [dependency_visualization |->
                  generate_dependency_visualization(GetAllPrograms(rows, query_ok[4]), plot_ok),
              complexity_chart |->
                  generate_complexity_chart(GetAllPrograms(rows, query_ok[5]), plot_ok)]
        ELSE report

\* the rows store_cobol_program creates: an isolated unit, a large unit with
\* two dependencies, a unit stored with a line_count of None, and a unit
\* stored from a dictionary with the keys program_id and file_name only
ReportKinds == {"isolated", "large", "no line count", "bare"}

ReportRow(i, kind) ==
    CASE kind = "isolated" -> NewRow(ProgramData(Pid(i), Unit(<<>>, 99, "Low")))
      [] kind = "large" -> NewRow(ProgramData(Pid(i), Unit(<<DepA, DepB>>, 1001, "High")))
      [] kind = "no line count" -> NewRow(ProgramData(Pid(i), Unit(<<DepA>>, None, "Low")))
      [] kind = "bare" -> NewRow([program_id |-> Pid(i), file_name |-> Pid(i) \o DotCbl])

QueriesPerReport == 5

\* the store holds up to MaxPrograms records P1, P2, ...
ReportInit ==
    /\ \E n \in 0..MaxPrograms : \E kinds \in [1..n -> ReportKinds] :
           store = [i \in 1..n |-> ReportRow(i, kinds[i])]
    /\ last_call = NoCall
    /\ last_stored = EmptyFunction
    /\ result = NoResult
    /\ ParseIdle
    /\ BatchIdle
    /\ WebIdle
    /\ pc = "reporting"

GenerateAnalyticsReport ==
    /\ pc = "reporting"
    /\ \E query_ok \in [1..QueriesPerReport -> BOOLEAN],
          visualization_enabled \in BOOLEAN, plot_ok \in BOOLEAN :
           result' = [op |-> "generate_analytics_report",
                      query_ok |-> query_ok,
                      report |-> generate_analytics_report(store, query_ok,
                                                           visualization_enabled, plot_ok)]
    /\ pc' = "reported"
    /\ UNCHANGED <<parseVars, batchVars, storeVars, webVars>>

ReportNext == GenerateAnalyticsReport

SpecReport == ReportInit /\ [][ReportNext]_vars

\* the rows that hold None where a section computes with the value
RowsWithoutLineCount == {i \in 1..Len(store) : IsNone(store[i].line_count)}
RowsWithoutDependencies == {i \in 1..Len(store) : IsNone(store[i].dependencies)}

\* a section is the message of an empty store, error-marked, or computed
IsMessage(section) == "message" \in DOMAIN section
IsErrorMarked(section) == DOMAIN section = {"error"}

\* what a section is, from the outcome of its query and the rows it needs:
\* a message when the query failed or the store is empty, error-marked when
\* a row lacks a value the section computes with, and computed otherwise
SectionAsExpected(section, query_ok, lacking, computed_key) ==
    IF ~query_ok \/ Len(store) = 0 THEN IsMessage(section)
    ELSE IF lacking # {} THEN IsErrorMarked(section)
    ELSE computed_key \in DOMAIN section

\* C21: generate_analytics_report always returns a report with the sections
\* codebase_overview, relationship_analysis and refactoring_opportunities;
\* a section whose query failed is the message of an empty store, a section
\* whose computation failed is error-marked, and every other section is
\* computed, whatever happened to the other two.
C21_ReportAlwaysHasThreeSections ==
    Reported("generate_analytics_report") =>
        LET report == result.report
            query_ok == result.query_ok
        IN  /\ {"codebase_overview", "relationship_analysis",
                "refactoring_opportunities"} \subseteq DOMAIN report
            /\ SectionAsExpected(report.codebase_overview, query_ok[1],
                                 RowsWithoutLineCount \cup RowsWithoutDependencies,
                                 "total_lines_of_code")
            /\ SectionAsExpected(report.relationship_analysis, query_ok[2],
                                 RowsWithoutDependencies, "relationship_details")
            /\ SectionAsExpected(report.refactoring_opportunities, query_ok[3],
                                 RowsWithoutLineCount \cup RowsWithoutDependencies,
                                 "large_programs")

\* the query of the overview failed and a row has no line count: the overview
\* is a message, the relationships are computed with their edges and the
\* refactoring section is error-marked
C21_Witness ==
    /\ Reported("generate_analytics_report")
    /\ ~result.query_ok[1] /\ result.query_ok[2] /\ result.query_ok[3]
    /\ RowsWithoutLineCount # {}
    /\ IsMessage(result.report.codebase_overview)
    /\ "relationship_details" \in DOMAIN result.report.relationship_analysis
    /\ result.report.relationship_analysis.total_relationships = 3
    /\ IsErrorMarked(result.report.refactoring_opportunities)

----------------------------------------------------------------------------
(* llm_integration.py: the global LLMService, and configure_llm of app.py  *)

\* os.getenv(name); <<>> stands for the None of an unset variable, which a
\* condition treats like the empty string
getenv(env, name) == IF name \in DOMAIN env THEN env[name] ELSE <<>>

\* os.environ[name] = value
setenv(env, name, value) ==
    [n \in DOMAIN env \cup {name} |-> IF n = name THEN value ELSE env[n]]

\* a precedence that looks at the FriendliAI token before the custom endpoint
initialize_provider_friendli_first(service, env) ==
    IF Len(getenv(env, "FRIENDLI_TOKEN")) > 0
    THEN [service EXCEPT !.current_provider = "friendli",
                         !.api_key = getenv(env, "FRIENDLI_TOKEN")]
    ELSE IF Len(getenv(env, "CUSTOM_LLM_ENDPOINT")) > 0
    THEN [service EXCEPT !.current_provider = "custom",
                         !.custom_endpoint = getenv(env, "CUSTOM_LLM_ENDPOINT")]
    ELSE IF Len(getenv(env, "OPENAI_API_KEY")) > 0 /\ service.litellm_available
    THEN [service EXCEPT !.current_provider = "openai",
                         !.api_key = getenv(env, "OPENAI_API_KEY")]
    ELSE [service EXCEPT !.current_provider = "local"]

\* LLMService.initialize_provider: the fields of the service afterwards
initialize_provider(service, env) ==
    IF Len(getenv(env, "CUSTOM_LLM_ENDPOINT")) > 0
    THEN [service EXCEPT !.current_provider = "custom",
                         !.custom_endpoint = getenv(env, "CUSTOM_LLM_ENDPOINT")]
    ELSE IF Len(getenv(env, "FRIENDLI_TOKEN")) > 0
    THEN [service EXCEPT !.current_provider = "friendli",
                         !.api_key = getenv(env, "FRIENDLI_TOKEN")]
    ELSE IF Len(getenv(env, "OPENAI_API_KEY")) > 0 /\ service.litellm_available
    THEN [service EXCEPT !.current_provider = "openai",
                         !.api_key = getenv(env, "OPENAI_API_KEY")]
    ELSE [service EXCEPT !.current_provider = "local"]

\* LLMService(): __init__ followed by initialize_provider; litellm_available
\* is the module constant LITELLM_AVAILABLE, configured is history: the
\* endpoint of the last configure_llm request that returned success
LLMService(env, litellm_available) ==
    initialize_provider([constructed |-> TRUE,
                         litellm_available |-> litellm_available,
                         current_provider |-> "None",
                         custom_endpoint |-> None,
                         api_key |-> None,
                         configured |-> None], env)

\* substring in text
Contains(text, lit) == LitPlaces(text, lit) # {}

\* the fixed sentences of _local_processing, each kept as one element of the
\* text; the list of abilities of the last one is left out
MsgDepend == <<"To analyze dependencies, I need the specific program name. Please specify which COBOL program you'd like me to analyze for dependencies.">>
MsgExplainHead == <<"Based on the available data, this appears to be a COBOL program with the following characteristics:\n\n">>
MsgExplainTail == <<"\n\nFor a more detailed explanation, please provide the specific program name or code section you'd like me to analyze.">>
MsgExplainNoContext == <<"To explain a COBOL program, please specify which program you'd like me to analyze, or upload your COBOL files first.">>
MsgSimilar == <<"To find similar code, I can search through your uploaded COBOL programs. Please specify what type of functionality or pattern you're looking for.">>
MsgHelp == <<"I can help you analyze COBOL code! ... Please upload your COBOL files first, then ask me specific questions about your code.">>

\* LLMService._local_processing
_local_processing(prompt, context) ==
    LET prompt_lower == lower(prompt)
    IN  IF Contains(prompt_lower, <<"d","e","p","e","n","d">>) THEN Str(MsgDepend)
        ELSE IF Contains(prompt_lower, <<"e","x","p","l","a","i","n">>)
        THEN IF Len(context) > 0 THEN Str(MsgExplainHead \o context \o MsgExplainTail)
             ELSE Str(MsgExplainNoContext)
        ELSE IF Contains(prompt_lower, <<"s","i","m","i","l","a","r">>)
                    \/ Contains(prompt_lower, <<"f","i","n","d">>)
        THEN Str(MsgSimilar)
        ELSE Str(MsgHelp)

\* result["choices"][0]["message"]["content"] can be read
HasFirstChoiceContent(json) ==
    /\ "choices" \in DOMAIN json
    /\ Len(json.choices) > 0
    /\ "message" \in DOMAIN json.choices[1]
    /\ "content" \in DOMAIN json.choices[1].message

\* LLMService._call_custom_endpoint, from what requests.post does
_call_custom_endpoint(prompt, context, outcome) ==
    IF outcome.kind = "throws" THEN _local_processing(prompt, context)
    ELSE IF outcome.status_code # 200 THEN _local_processing(prompt, context)
    ELSE IF ~outcome.is_json THEN _local_processing(prompt, context)
    ELSE LET json == outcome.json
         IN  IF "choices" \in DOMAIN json /\ Len(json.choices) > 0
             THEN IF HasFirstChoiceContent(json) THEN json.choices[1].message.content
                  ELSE _local_processing(prompt, context)
             ELSE IF "response" \in DOMAIN json THEN json.response
             ELSE IF "text" \in DOMAIN json THEN json.text
             ELSE Str(<<"str(result)">>)

\* LLMService._call_friendli
_call_friendli(prompt, context, outcome) ==
    IF outcome.kind = "throws" THEN _local_processing(prompt, context)
    ELSE IF outcome.status_code # 200 THEN _local_processing(prompt, context)
    ELSE IF ~outcome.is_json THEN _local_processing(prompt, context)
    ELSE IF HasFirstChoiceContent(outcome.json) THEN outcome.json.choices[1].message.content
    ELSE _local_processing(prompt, context)

\* LLMService._call_openai, from what litellm.completion does
_call_openai(service, prompt, context, outcome) ==
    IF ~service.litellm_available THEN _local_processing(prompt, context)
    ELSE IF outcome.kind = "throws" THEN _local_processing(prompt, context)
    ELSE IF HasFirstChoiceContent(outcome.json) THEN outcome.json.choices[1].message.content
    ELSE _local_processing(prompt, context)

\* LLMService.generate_response: the returned value
generate_response(service, prompt, context, outcome) ==
    IF service.current_provider = "custom" THEN _call_custom_endpoint(prompt, context, outcome)
    ELSE IF service.current_provider = "friendli" THEN _call_friendli(prompt, context, outcome)
    ELSE IF service.current_provider = "openai"
    THEN _call_openai(service, prompt, context, outcome)
    ELSE _local_processing(prompt, context)

FriendliUrl == <<"https://inference.friendli.ai/v1/chat/completions">>

\* where generate_response sends the prompt first: a URL, litellm, or nowhere
FirstCalled(service) ==
    IF service.current_provider = "custom" THEN service.custom_endpoint
    ELSE IF service.current_provider = "friendli" THEN FriendliUrl
    ELSE IF service.current_provider = "openai" /\ service.litellm_available
    THEN <<"litellm">>
    ELSE None

\* urllib.parse.urlparse(url).scheme
UrlSchemeChars ==
    SetOf(LowerChars) \cup SetOf(UpperChars) \cup DigitChars \cup {"+", "-", "."}

ColonAt(url) ==
    IF \E i \in 1..Len(url) : url[i] = ":"
    THEN LeastOf({i \in 1..Len(url) : url[i] = ":"})
    ELSE 0

HasScheme(url) ==
    /\ ColonAt(url) > 1
    /\ url[1] \in SetOf(LowerChars) \cup SetOf(UpperChars)
    /\ \A k \in 1..(ColonAt(url) - 1) : url[k] \in UrlSchemeChars

url_scheme(url) == IF HasScheme(url) THEN lower(SubSeq(url, 1, ColonAt(url) - 1)) ELSE <<>>

\* urllib.parse.urlparse(url).netloc
url_netloc(url) ==
    LET rest == IF HasScheme(url) THEN SubSeq(url, ColonAt(url) + 1, Len(url)) ELSE url
        stops == {i \in 3..Len(rest) : rest[i] \in {"/", "?", "#"}}
    IN  IF ~startswith(rest, <<"/", "/">>) THEN <<>>
        ELSE IF stops = {} THEN SubSeq(rest, 3, Len(rest))
        ELSE SubSeq(rest, 3, LeastOf(stops) - 1)

\* a JSON number, which is true in a condition and is not a string
NumberValue == [is_str |-> FALSE, chars |-> <<"5">>]

\* configure_llm: the response, the environment and the service afterwards;
\* data.empty stands for a body of None or {}, an endpoint or token of <<>>
\* for a missing or empty one
configure_llm(data, service, env) ==
    IF data.empty
    THEN [status |-> 400, error |-> "No configuration data provided",
          environ |-> env, llm_service |-> service]
    ELSE IF Len(data.endpoint) = 0
    THEN [status |-> 400, error |-> "Endpoint URL required",
          environ |-> env, llm_service |-> service]
    ELSE IF Len(url_scheme(data.endpoint)) = 0 \/ Len(url_netloc(data.endpoint)) = 0
    THEN [status |-> 400, error |-> "Invalid endpoint URL",
          environ |-> env, llm_service |-> service]
    ELSE LET with_endpoint == setenv(env, "CUSTOM_LLM_ENDPOINT", data.endpoint)
         IN  IF ~data.token.is_str
             THEN [status |-> 500, error |-> "str expected",
                   environ |-> with_endpoint, llm_service |-> service]
             ELSE LET configured_env ==
                          IF Len(data.token.chars) > 0
                          THEN setenv(with_endpoint, "CUSTOM_LLM_TOKEN", data.token.chars)
                          ELSE with_endpoint
                      initialized == initialize_provider(service, configured_env)
                  IN  [status |-> 200, success |-> TRUE,
                       provider |-> initialized.current_provider,
                       environ |-> configured_env,
                       llm_service |-> [initialized EXCEPT !.configured = data.endpoint]]

EndpointA == <<"h","t","t","p",":","/","/","a">>
EndpointB == <<"H","T","T","P","S",":","/","/","b","/","v","1">>
EndpointNoNetloc == <<"h","t","t","p",":","a">>
EndpointNoScheme == <<"/","/","a">>
Token == <<"t">>

EnvironNames == {"CUSTOM_LLM_ENDPOINT", "FRIENDLI_TOKEN", "OPENAI_API_KEY"}

\* the environments at the import of llm_integration: every subset of the
\* three variables is set
Environs ==
    {[n \in names |-> IF n = "CUSTOM_LLM_ENDPOINT" THEN EndpointA ELSE Token] :
         names \in SUBSET EnvironNames}

ConfigureData ==
    {[empty |-> TRUE, endpoint |-> <<>>, token |-> Str(<<>>)]}
        \cup {[empty |-> FALSE, endpoint |-> e, token |-> t] :
                  e \in {<<>>, EndpointA, EndpointB, EndpointNoNetloc, EndpointNoScheme},
                  t \in {Str(<<>>), Str(Token), NumberValue}}

Prompts ==
    { <<"D","e","p","e","n","d","s">>, <<"E","X","P","L","A","I","N">>,
      <<"f","i","n","d">>, <<"h","i">> }
Contexts == {<<>>, <<"c","t","x">>}

\* what a provider can answer with as content: a text or null
Answer == <<"a","n","s","w","e","r">>
Contents == {Str(Answer), NotAString}

\* what requests.post can do: raise, answer with a status other than 200,
\* answer 200 with a body that is not JSON, or answer 200 with a JSON object
JsonBodies ==
    {[choices |-> <<[message |-> [content |-> c]]>>] : c \in Contents}
        \cup {[choices |-> <<[index |-> 0]>>], [other |-> 1]}
        \cup {[choices |-> <<>>, response |-> c] : c \in Contents}
        \cup {[response |-> c] : c \in Contents}
        \cup {[text |-> c] : c \in Contents}

HttpOutcomes ==
    {[kind |-> "throws"], [kind |-> "answers", status_code |-> 503, is_json |-> FALSE]}
        \cup {[kind |-> "answers", status_code |-> 200, is_json |-> FALSE]}
        \cup {[kind |-> "answers", status_code |-> 200, is_json |-> TRUE, json |-> j] :
                  j \in JsonBodies}

\* what litellm.completion can do: raise, or return a completion
CompletionOutcomes ==
    {[kind |-> "throws"]}
        \cup {[kind |-> "returns", json |-> [choices |-> <<[message |-> [content |-> c]]>>]] :
                  c \in Contents}
        \cup {[kind |-> "returns", json |-> [choices |-> <<>>]]}

NoOutcome == [kind |-> "not called"]

OutcomesOf(service) ==
    IF service.current_provider \in {"custom", "friendli"} THEN HttpOutcomes
    ELSE IF service.current_provider = "openai" /\ service.litellm_available
    THEN CompletionOutcomes
    ELSE {NoOutcome}

LlmInit ==
    /\ environ \in Environs
    /\ \E litellm_available \in BOOLEAN :
           llm_service = LLMService(environ, litellm_available)
    /\ upload_folder = EmptyFunction
    /\ requests = EmptyFunction
    /\ calls = EmptyFunction
    /\ sessions = EmptyFunction
    /\ ParseIdle
    /\ BatchIdle
    /\ StoreIdle
    /\ result = NoResult
    /\ pc = "serving"

\* one request POST /api/llm/configure
ConfigureLlm ==
    /\ pc = "serving"
    /\ \E data \in ConfigureData :
           LET response == configure_llm(data, llm_service, environ)
           IN  /\ environ' = response.environ
               /\ llm_service' = response.llm_service
               /\ result' = [op |-> "configure_llm", data |-> data,
                             before |-> llm_service.current_provider,
                             status |-> response.status]
    /\ UNCHANGED <<parseVars, batchVars, storeVars, pc,
                   upload_folder, requests, calls, sessions>>

\* one call of llm_service.generate_response(prompt, context)
GenerateResponse ==
    /\ pc = "serving"
    /\ \E prompt \in Prompts, context \in Contexts, outcome \in OutcomesOf(llm_service) :
           result' = [op |-> "generate_response",
                      prompt |-> prompt, context |-> context, outcome |-> outcome,
                      called |-> FirstCalled(llm_service),
                      report |-> generate_response(llm_service, prompt, context, outcome)]
    /\ UNCHANGED <<parseVars, batchVars, storeVars, pc, webVars>>

LlmNext == ConfigureLlm \/ GenerateResponse

SpecLlm == LlmInit /\ [][LlmNext]_vars

\* the provider call failed: it raised, or answered with another status
ProviderFailed(outcome) ==
    \/ outcome.kind = "throws"
    \/ outcome.kind = "answers" /\ outcome.status_code # 200

\* C22: generate_response always returns text, and when the provider call
\* throws or answers with a non-200 status the text is the output of
\* _local_processing for the same prompt and context.
C22_AlwaysTextAndLocalOnFailure ==
    Reported("generate_response") =>
        /\ result.report.is_str
        /\ ProviderFailed(result.outcome)
               => result.report = _local_processing(result.prompt, result.context)

\* the provider the documented precedence selects: custom endpoint, then
\* FriendliAI, then OpenAI when litellm can be imported, then local
ExpectedProvider(env, litellm_available) ==
    IF "CUSTOM_LLM_ENDPOINT" \in DOMAIN env /\ env["CUSTOM_LLM_ENDPOINT"] # <<>>
    THEN "custom"
    ELSE IF "FRIENDLI_TOKEN" \in DOMAIN env /\ env["FRIENDLI_TOKEN"] # <<>>
    THEN "friendli"
    ELSE IF "OPENAI_API_KEY" \in DOMAIN env /\ env["OPENAI_API_KEY"] # <<>>
                /\ litellm_available
    THEN "openai"
    ELSE "local"

ConfigureSucceeded == Reported("configure_llm") /\ result.status = 200

\* C30: initialize_provider selects custom > friendli > openai > local from
\* the environment; after a successful configure_llm the provider is
\* 'custom' with the endpoint of the request, and a later generate_response
\* goes to the configured endpoint first.
C30_ProviderPrecedence ==
    /\ (result = NoResult \/ ConfigureSucceeded)
           => llm_service.current_provider
                  = ExpectedProvider(environ, llm_service.litellm_available)
    /\ ConfigureSucceeded
           => /\ llm_service.current_provider = "custom"
              /\ llm_service.custom_endpoint = result.data.endpoint
    /\ (Reported("generate_response") /\ llm_service.configured # None)
           => result.called = llm_service.configured

\* a prompt went to an endpoint configured while a FriendliAI token and an
\* OpenAI key were set and another custom endpoint was in use
C30_Witness ==
    /\ Reported("generate_response")
    /\ llm_service.configured = EndpointB
    /\ result.called = EndpointB
    /\ {"FRIENDLI_TOKEN", "OPENAI_API_KEY"} \subseteq DOMAIN environ
    /\ result.outcome.kind = "answers"

----------------------------------------------------------------------------
(* The edge list of analyze_program_relationships                          *)

\* the number of dependency-list entries of the units before unit i
RECURSIVE EntriesBefore(_, _)
EntriesBefore(units, i) ==
    IF i <= 1 THEN 0
    ELSE EntriesBefore(units, i - 1) + Len(units[i - 1].dependencies)

\* the edges are the entries of the units' dependency lists, one each, in
\* the order of the units and of their lists
OneEdgePerEntry(units, details) ==
    /\ Len(details) = EntriesBefore(units, Len(units) + 1)
    /\ \A i \in 1..Len(units) : \A k \in 1..Len(units[i].dependencies) :
           details[EntriesBefore(units, i) + k]
               = [source |-> units[i].programId,
                  target |-> units[i].dependencies[k],
                  type |-> "depends_on"]

----------------------------------------------------------------------------
(* The 'Very Large' bucket and the list large_programs                     *)

\* the identities of the units _categorize_by_size counts as 'Very Large'
VeryLargeUnits(units) ==
    {units[i].programId :
         i \in {k \in 1..Len(units) :
                    SizeCategory(units[k].lineCount) = "Very Large (> 1000 lines)"}}

\* the identities listed in large_programs
ListedAsLarge(report) ==
    {report.large_programs[k].program_id : k \in 1..Len(report.large_programs)}

\* C29: for the same stored units, the units counted in the 'Very Large'
\* bucket by _categorize_by_size are exactly the units listed in
\* large_programs by identify_refactoring_opportunities.
C29_VeryLargeBucketIsLargePrograms ==
    (Reported("identify_refactoring_opportunities")
         /\ "large_programs" \in DOMAIN result.report) =>
        LET units == StoredUnits
        IN  /\ VeryLargeUnits(units) = ListedAsLarge(result.report)
            /\ _categorize_by_size(units)["Very Large (> 1000 lines)"]
                   = Len(result.report.large_programs)

----------------------------------------------------------------------------
(* The table analysis_sessions: get_or_create_session and                  *)
(* update_session_status                                                   *)

\* the value of datetime.utcnow()
UtcNow == <<"utcnow">>

\* AnalysisSession(session_id=..., processing_status='ready') after the
\* commit: the columns of the model with their defaults
NewSession ==
    [processing_status |-> "ready", programs_count |-> 0,
     error_message |-> None, completed_at |-> None]

\* the table after a commit of get_or_create_session for a new cookie
CreatedSession(table, session_id) ==
    [s \in DOMAIN table \cup {session_id} |->
        IF s = session_id THEN NewSession ELSE table[s]]

\* the assignments of update_session_status to the row it found;
\* count_given is programs_count is not None, an error_message of <<>>
\* stands for None or ''
SessionRow(row, status, count_given, programs_count, error_message) ==
    [processing_status |-> status,
     programs_count |-> IF count_given THEN programs_count ELSE row.programs_count,
     error_message |-> IF Len(error_message) > 0 THEN error_message ELSE row.error_message,
     completed_at |-> IF status = "completed" THEN UtcNow ELSE row.completed_at]

\* update_session_status: the table afterwards and the returned value; the
\* query or the commit may raise, which rolls back and returns False
update_session_status(table, session_id, status, count_given, programs_count, error_message, db_ok) ==
    IF ~db_ok THEN [sessions |-> table, returned |-> FALSE]
    ELSE IF session_id \notin DOMAIN table THEN [sessions |-> table, returned |-> FALSE]
    ELSE [sessions |-> [table EXCEPT ![session_id] =
                            SessionRow(table[session_id], status, count_given,
                                       programs_count, error_message)],
          returned |-> TRUE]

SessionIds == {<<"S","1">>}
Statuses == {"ready", "processing", "completed", "error"}
ErrorMessages == {<<>>, <<"e","r","r">>}

SessionInit ==
    /\ sessions = EmptyFunction
    /\ upload_folder = EmptyFunction
    /\ requests = EmptyFunction
    /\ calls = EmptyFunction
    /\ llm_service = NoService
    /\ environ = EmptyFunction
    /\ ParseIdle
    /\ BatchIdle
    /\ StoreIdle
    /\ result = NoResult
    /\ pc = "tracking"

\* get_or_create_session for a request without a session cookie
GetOrCreateSession ==
    /\ pc = "tracking"
    /\ \E session_id \in SessionIds \ DOMAIN sessions :
           /\ sessions' = CreatedSession(sessions, session_id)
           /\ result' = [op |-> "get_or_create_session", session_id |-> session_id]
    /\ UNCHANGED <<parseVars, batchVars, storeVars, pc,
                   upload_folder, requests, calls, llm_service, environ>>

\* one call of update_session_status
UpdateSessionStatus ==
    /\ pc = "tracking"
    /\ \E session_id \in SessionIds, status \in Statuses, count_given \in BOOLEAN,
          programs_count \in 0..MaxPrograms, error_message \in ErrorMessages,
          db_ok \in BOOLEAN :
           LET updated == update_session_status(sessions, session_id, status, count_given,
                                                programs_count, error_message, db_ok)
           IN  /\ sessions' = updated.sessions
               /\ result' = [op |-> "update_session_status", session_id |-> session_id,
                             status |-> status, returned |-> updated.returned]
    /\ UNCHANGED <<parseVars, batchVars, storeVars, pc,
                   upload_folder, requests, calls, llm_service, environ>>

SessionNext == GetOrCreateSession \/ UpdateSessionStatus

SpecSession == SessionInit /\ [][SessionNext]_vars

\* C28: in every state of an AnalysisSession reachable by update_session_status
\* calls, completed_at is set if and only if processing_status is 'completed'.
C28_CompletedAtIffCompleted ==
    \A s \in DOMAIN sessions :
        (sessions[s].completed_at # None) <=> (sessions[s].processing_status = "completed")

----------------------------------------------------------------------------
(* app.py: upload_file, two requests served by the threads of the server   *)

ALLOWED_EXTENSIONS ==
    { <<"z","i","p">>, <<"c","b","l">>, <<"c","o","b">>, <<"c","o","b","o","l">> }

\* filename.rsplit('.', 1)[1], for a filename with a dot
LastExtension(filename) ==
    LET dots == {i \in 1..Len(filename) : filename[i] = "."}
    IN  SubSeq(filename, (CHOOSE i \in dots : \A j \in dots : j <= i) + 1, Len(filename))

allowed_file(filename) ==
    /\ "." \in SetOf(filename)
    /\ lower(LastExtension(filename)) \in ALLOWED_EXTENSIONS
    /\ ~Contains(filename, <<".", ".">>)
    /\ ~Contains(filename, <<"/">>)
    /\ ~Contains(filename, <<"\\">>)

IsKept(c) == c # "dropped"

\* "_".join(filename.split()) after the path separator became a blank: the
\* first blank of every run between two words is an underscore, all other
\* blanks are gone
JoinedWords(filename) ==
    LET blank(i) == filename[i] \in {" ", "/"}
        marked == [i \in 1..Len(filename) |->
                      IF ~blank(i) THEN filename[i]
                      ELSE IF /\ i > 1
                              /\ ~blank(i - 1)
                              /\ \E j \in (i+1)..Len(filename) : ~blank(j)
                      THEN "_"
                      ELSE "dropped"]
    IN  SelectSeq(marked, IsKept)

SafeChars == SetOf(LowerChars) \cup SetOf(UpperChars) \cup DigitChars \cup {"_", ".", "-"}

IsSafeChar(c) == c \in SafeChars

\* str.strip("._")
StripDotsAndUnderscores(s) ==
    LET kept == {i \in 1..Len(s) : s[i] \notin {".", "_"}}
    IN  IF kept = {} THEN <<>>
        ELSE SubSeq(s, LeastOf(kept), CHOOSE i \in kept : \A j \in kept : j <= i)

\* werkzeug.utils.secure_filename, for ASCII names
secure_filename(filename) ==
    StripDotsAndUnderscores(SelectSeq(JoinedWords(filename), IsSafeChar))

DotZip == <<".","z","i","p">>

endswith(s, suffix) ==
    Len(s) >= Len(suffix) /\ SubSeq(s, Len(s) - Len(suffix) + 1, Len(s)) = suffix

\* a COBOL source, as the facts parse_cobol_to_ast returns for it: the name
\* it is stored under and the PROGRAM-ID it declares, <<>> when it has none
Member(file_name, program_id) ==
    [file_name |-> file_name, program_id |-> program_id, line_count |-> 1]

\* the files in temp_dir after the zip extraction or shutil.copy2 of the
\* bytes found at filepath
ExtractedFiles(filename, bytes) ==
    IF endswith(lower(filename), DotZip) THEN bytes
    ELSE <<[bytes[1] EXCEPT !.file_name = filename]>>

\* some member of the archive has a name allowed_file rejects
HasInvalidMember(filename, bytes) ==
    /\ endswith(lower(filename), DotZip)
    /\ \E k \in 1..Len(bytes) : ~allowed_file(bytes[k].file_name)

\* extract_cobol_files(temp_dir): the facts of the files with a COBOL
\* extension
ParsedFiles(files) == SelectSeq(files, LAMBDA f : IsCobolFile(f.file_name))

\* _prepare_program_data, for the columns of the model
_prepare_program_data(file_data) ==
    [program_id |-> IF "program_id" \in DOMAIN file_data THEN file_data.program_id
                    ELSE Unknown,
     file_name |-> IF "file_name" \in DOMAIN file_data THEN file_data.file_name
                   ELSE Unknown,
     dependencies |-> <<>>,
     complexity |-> "Unknown",
     line_count |-> IF "line_count" \in DOMAIN file_data THEN file_data.line_count ELSE 0]

\* the loop over cobol_files: the table afterwards and programs_stored;
\* commit_oks[k] says whether the database accepts the k-th commit
RECURSIVE StoreAll(_, _, _)
StoreAll(rows, files, commit_oks) ==
    IF Len(files) = 0 THEN [store |-> rows, programs_stored |-> 0]
    ELSE LET to_commit == RowsToCommit(rows, _prepare_program_data(files[1]))
             ok == commit_oks[1] /\ ConstraintsHold(to_commit)
             rest == StoreAll(IF ok THEN to_commit ELSE rows, Tail(files), Tail(commit_oks))
         IN  [store |-> rest.store,
              programs_stored |-> rest.programs_stored + (IF ok THEN 1 ELSE 0)]

NameA == <<"a",".","c","b","l">>
NameSpacedA == <<" ","a",".","c","b","l">>
NameZip == <<"b",".","Z","I","P">>
NameExe == <<"x",".","e","x","e">>
NameX == <<"x",".","c","b","l">>
NameY == <<"y",".","c","o","b">>
NameText == <<"r",".","t","x","t">>

\* the uploads of the model: the filename sent and the bytes, given as the
\* COBOL sources they hold (one for a source file, the members for a zip)
Uploads ==
    { [filename |-> NameA, bytes |-> <<Member(NameA, Pid(1))>>],
      [filename |-> NameA, bytes |-> <<Member(NameA, Pid(2))>>],
      [filename |-> NameSpacedA, bytes |-> <<Member(NameSpacedA, Pid(3))>>],
      [filename |-> NameZip, bytes |-> <<Member(NameX, Pid(1)), Member(NameY, Pid(1))>>],
      [filename |-> NameZip, bytes |-> <<Member(NameX, <<>>), Member(NameY, <<>>)>>],
      [filename |-> NameZip, bytes |-> <<Member(NameX, Pid(2)), Member(NameExe, <<>>)>>],
      [filename |-> NameExe, bytes |-> <<>>],
      [filename |-> <<>>, bytes |-> <<>>] }

\* the requests in flight at one time
RequestIds == {1, 2}

\* the uuid4 of a request that creates its session
NewSessionId(r) == <<"S", DigitNames[r]>>

Idle == [pc |-> "idle"]

NothingRead == [tried |-> FALSE, found |-> FALSE, bytes |-> <<>>]

UploadInit ==
    /\ upload_folder = EmptyFunction
    /\ requests = [r \in RequestIds |-> Idle]
    /\ sessions = EmptyFunction
    /\ store = <<>>
    /\ last_call = NoCall
    /\ last_stored = EmptyFunction
    /\ calls = EmptyFunction
    /\ llm_service = NoService
    /\ environ = EmptyFunction
    /\ ParseIdle
    /\ BatchIdle
    /\ result = NoResult
    /\ pc = "serving uploads"

\* upload_file up to file.save: the checks of the file, secure_filename,
\* mkdtemp, get_or_create_session and update_session_status('processing').
\* A request without a file or with a rejected name returns 400; a failed
\* commit of the new session raises, and the handler of the inner try then
\* raises on the unbound session_id, which leaves the function through the
\* finally clause and the outer handler
UploadBegin(r) ==
    /\ pc = "serving uploads"
    /\ requests[r].pc = "idle"
    /\ \E upload \in Uploads, has_cookie \in BOOLEAN, create_ok \in BOOLEAN,
          db_ok \in BOOLEAN :
           \* has_cookie: the request carries the cookie of the session that
           \* request 1 created
           LET session_id == IF has_cookie THEN NewSessionId(1) ELSE NewSessionId(r)
               created == IF has_cookie \/ ~create_ok THEN sessions
                          ELSE CreatedSession(sessions, session_id)
               updated == update_session_status(created, session_id, "processing",
                                                FALSE, 0, <<>>, db_ok)
               started == [pc |-> "save",
                           upload |-> upload,
                           filepath |-> secure_filename(upload.filename),
                           session_id |-> session_id,
                           set_processing |-> FALSE,
                           read |-> NothingRead,
                           programs_stored |-> 0,
                           response |-> [status |-> 0]]
           IN  /\ has_cookie => NewSessionId(1) \in DOMAIN sessions
               /\ IF Len(upload.filename) = 0 \/ ~allowed_file(upload.filename)
                  THEN /\ requests' = [requests EXCEPT ![r] =
                              [started EXCEPT !.response = [status |-> 400], !.pc = "done"]]
                       /\ UNCHANGED sessions
                  ELSE IF ~has_cookie /\ ~create_ok
                  THEN /\ requests' = [requests EXCEPT ![r] =
                              [started EXCEPT !.response = [status |-> 500], !.pc = "cleanup"]]
                       /\ UNCHANGED sessions
                  ELSE /\ requests' = [requests EXCEPT ![r] =
                              [started EXCEPT !.set_processing = updated.returned]]
                       /\ sessions' = updated.sessions
    /\ UNCHANGED <<parseVars, batchVars, storeVars, result, pc,
                   upload_folder, calls, llm_service, environ>>

\* file.save(filepath)
UploadSave(r) ==
    /\ pc = "serving uploads"
    /\ requests[r].pc = "save"
    /\ upload_folder' =
           [f \in DOMAIN upload_folder \cup {requests[r].filepath} |->
               IF f = requests[r].filepath THEN requests[r].upload.bytes
               ELSE upload_folder[f]]
    /\ requests' = [requests EXCEPT ![r].pc = "process"]
    /\ UNCHANGED <<parseVars, batchVars, storeVars, result, pc,
                   sessions, calls, llm_service, environ>>

\* from the zip extraction or shutil.copy2 to the response: the files are
\* read from filepath into temp_dir, parsed and stored, the session becomes
\* 'completed' and the external services are set up (their failures are
\* caught); an exception on the way (filepath is gone, a member of the zip is
\* rejected) makes the session 'error' and the response 500
UploadProcess(r) ==
    /\ pc = "serving uploads"
    /\ requests[r].pc = "process"
    /\ LET req == requests[r]
           found == req.filepath \in DOMAIN upload_folder
           bytes == IF found THEN upload_folder[req.filepath] ELSE <<>>
           raises == ~found \/ HasInvalidMember(req.filepath, bytes)
           files == IF raises THEN <<>> ELSE ExtractedFiles(req.filepath, bytes)
           cobol == ParsedFiles(files)
       IN  \E commit_oks \in [1..Len(cobol) -> BOOLEAN], db_ok \in BOOLEAN :
               LET stored == StoreAll(store, cobol, commit_oks)
                   updated ==
                       IF raises
                       THEN update_session_status(sessions, req.session_id, "error",
                                                  FALSE, 0, <<"str(e)">>, db_ok)
                       ELSE update_session_status(sessions, req.session_id, "completed",
                                                  TRUE, stored.programs_stored, <<>>, db_ok)
               IN  /\ store' = stored.store
                   /\ sessions' = updated.sessions
                   /\ requests' = [requests EXCEPT ![r] =
                          [req EXCEPT
                              !.pc = "cleanup",
                              !.read = [tried |-> TRUE, found |-> found, bytes |-> bytes],
                              !.programs_stored = stored.programs_stored,
                              !.response =
                                  IF raises THEN [status |-> 500]
                                  ELSE [status |-> 200, success |-> TRUE,
                                        programs_count |-> stored.programs_stored]]]
    /\ UNCHANGED <<parseVars, batchVars, last_call, last_stored, result, pc,
                   upload_folder, calls, llm_service, environ>>

\* the finally clause: os.remove(filepath) if it exists, rmtree(temp_dir);
\* then the response goes out
UploadCleanup(r) ==
    /\ pc = "serving uploads"
    /\ requests[r].pc = "cleanup"
    /\ upload_folder' =
           [f \in DOMAIN upload_folder \ {requests[r].filepath} |-> upload_folder[f]]
    /\ requests' = [requests EXCEPT ![r].pc = "done"]
    /\ UNCHANGED <<parseVars, batchVars, storeVars, result, pc,
                   sessions, calls, llm_service, environ>>

UploadNext ==
    \E r \in RequestIds :
        UploadBegin(r) \/ UploadSave(r) \/ UploadProcess(r) \/ UploadCleanup(r)

SpecUpload == UploadInit /\ [][UploadNext]_vars

\* request r has read the bytes at its filepath
HasRead(r) == requests[r].pc \in {"cleanup", "done"} /\ requests[r].read.tried

\* C24: two concurrent upload_file requests share no mutable state: each
\* request parses and stores only the file it saved itself, and the cleanup
\* of one request never removes or replaces a file the other still has to
\* read, also when both uploads carry the same file name.
C24_RequestsReadOnlyTheirOwnFile ==
    \A r \in RequestIds :
        HasRead(r) =>
            /\ requests[r].read.found
            /\ requests[r].read.bytes = requests[r].upload.bytes

\* request r is the only request so far, and it has returned success
OnlyRequestSucceeded(r) ==
    /\ requests[r].pc = "done"
    /\ requests[r].response.status = 200
    /\ \A o \in RequestIds \ {r} : requests[o].pc = "idle"

\* C26: after an upload_file request that succeeds on an initially empty
\* store, the programs_count returned to the caller and recorded on the
\* session equals the number of CobolProgram records in the store, also when
\* several units declare no PROGRAM-ID or the same one.
C26_ProgramsCountIsNumberOfRecords ==
    \A r \in RequestIds :
        OnlyRequestSucceeded(r) =>
            /\ requests[r].response.programs_count = Len(store)
            /\ (/\ requests[r].session_id \in DOMAIN sessions
                /\ sessions[requests[r].session_id].processing_status = "completed")
                   => sessions[requests[r].session_id].programs_count = Len(store)

\* request r has returned after it set its session to 'processing', and no
\* other request of the same session is under way
ReturnedAfterProcessing(r) ==
    /\ requests[r].pc = "done"
    /\ requests[r].set_processing
    /\ \A o \in RequestIds \ {r} :
           requests[o].pc \in {"idle", "done"}
               \/ requests[o].session_id # requests[r].session_id

\* C27: whenever upload_file sets a session's processing_status to
\* 'processing', the status is 'completed' or 'error' by the time the request
\* returns.
C27_ProcessingEndsCompletedOrError ==
    \A r \in RequestIds :
        ReturnedAfterProcessing(r) =>
            sessions[requests[r].session_id].processing_status \in {"completed", "error"}

----------------------------------------------------------------------------
(* store_cobol_program called from several threads                         *)

\* Every request thread has its own db.session (a scoped session), so a call
\* is two steps on the shared table: the query filter_by(program_id).first(),
\* which loads the row or finds none, and the commit, which flushes what the
\* thread's session holds. The unit of work writes an INSERT for an added
\* object, and for a loaded object an UPDATE of the columns whose assigned
\* value differs from the value that was loaded (and of updated_at); the
\* other columns keep what the table holds at the commit.

\* the row k of the table after the UPDATE that a session flushes for an
\* object it loaded as loaded and assigned program_data to
FlushedRow(current, loaded, program_data) ==
    [c \in Columns |->
        IF c \in DOMAIN program_data /\ program_data[c] # loaded[c]
        THEN program_data[c]
        ELSE current[c]]

\* the inputs of the concurrent calls: three units for P1, one for another
\* identity
ConcurrentInputs ==
    {ProgramData(Pid(1), u) : u \in StoreUnits}
        \cup {ProgramData(Pid(i), Unit(<<>>, 99, "Low")) : i \in 2..MaxRecords}

CallIds == {1, 2}

NotCalling == [pc |-> "idle"]

ConcurrentInit ==
    /\ store = <<>>
    /\ last_call = NoCall
    /\ last_stored = EmptyFunction
    /\ calls = [c \in CallIds |-> NotCalling]
    /\ upload_folder = EmptyFunction
    /\ requests = EmptyFunction
    /\ sessions = EmptyFunction
    /\ llm_service = NoService
    /\ environ = EmptyFunction
    /\ ParseIdle
    /\ BatchIdle
    /\ result = NoResult
    /\ pc = "storing concurrently"

\* a thread enters store_cobol_program and runs the query
CallQuery(c) ==
    /\ pc = "storing concurrently"
    /\ calls[c].pc \in {"idle", "returned"}
    /\ \E program_data \in ConcurrentInputs :
           LET k == ExistingRow(store, IdentityOf(program_data))
           IN  calls' = [calls EXCEPT ![c] =
                   [pc |-> "queried", program_data |-> program_data,
                    existing |-> k,
                    loaded |-> IF k # 0 THEN store[k] ELSE NewRow(program_data),
                    returned |-> FALSE]]
    /\ UNCHANGED <<parseVars, batchVars, storeVars, result, pc,
                   upload_folder, requests, sessions, llm_service, environ>>

\* the setattr loop and db.session.commit(), then return True; or the commit
\* raises (a constraint fails, or any other database error), the session
\* rolls back and the call returns False
CallCommit(c) ==
    /\ pc = "storing concurrently"
    /\ calls[c].pc = "queried"
    /\ \E commit_ok \in BOOLEAN :
           LET call == calls[c]
               rows == IF call.existing # 0
                       THEN [store EXCEPT ![call.existing] =
                                FlushedRow(store[call.existing], call.loaded,
                                           call.program_data)]
                       ELSE Append(store, NewRow(call.program_data))
               ok == commit_ok /\ ConstraintsHold(rows)
               identity == IdentityOf(call.program_data)
           IN  /\ store' = IF ok THEN rows ELSE store
               /\ last_stored' =
                      IF ok
                      THEN [id \in DOMAIN last_stored \cup {identity} |->
                               IF id = identity THEN call.program_data ELSE last_stored[id]]
                      ELSE last_stored
               /\ calls' = [calls EXCEPT ![c].pc = "returned", ![c].returned = ok]
    /\ UNCHANGED <<parseVars, batchVars, last_call, result, pc,
                   upload_folder, requests, sessions, llm_service, environ>>

ConcurrentNext == \E c \in CallIds : CallQuery(c) \/ CallCommit(c)

SpecConcurrentStore == ConcurrentInit /\ [][ConcurrentNext]_vars

\* C25: under every interleaving of concurrent store_cobol_program calls the
\* store never holds two records with one program_id, and every call that
\* returned True has its data in the store unless a later successful call
\* for the same identity overwrote it: for every identity the record has the
\* fields of the latest call for it that returned True.
C25_ConcurrentCallsKeepLatestData ==
    /\ \A i, j \in 1..Len(store) : i # j => store[i].program_id # store[j].program_id
    /\ \A id \in DOMAIN last_stored : RowMatches(id, last_stored[id])

====
